---- MODULE Spec2Model ----
(***************************************************************************)
(* Federated search of where-its-at: the MegaAggregator fan-out, its       *)
(* Deduplicator, the merge / sort / truncate pipeline and the              *)
(* AggregatorCache with its RWMutex (pkg/integrations/mega_aggregator.go). *)
(*                                                                         *)
(* Strings that the code takes apart (artist names, venue names, cache and *)
(* dedup keys) are sequences of one-character strings; strings the code    *)
(* only passes along (source names, error causes) are atomic.              *)
(***************************************************************************)
EXTENDS Integers, Sequences, FiniteSets, Bags, TLC

\* ------------------------------------------------------------------ bounds
\* Most sources of one kind an aggregator has registered.
MaxSources == 2
\* Longest list the pipeline specification draws as its input.
MaxLen == 3
\* Clock ticks per calendar day (resolution of DateTime).
TicksPerDay == 2
\* Largest DateTime tick an event carries.
MaxTick == 3
\* Largest value of the clock.
MaxClock == 3
\* Searches one behaviour makes on one aggregator, one after the other.
MaxCalls == 2
\* Goroutines that call one AggregatorCache at the same time.
MaxThreads == 2
\* Largest MaxConcurrentRequests a configuration sets.
MaxConcurrent == 2

\* ------------------------------------------------------------- strings
\* strings.ToLower on the alphabet of the model
Lower(c) ==
    CASE c = "R" -> "r"
      [] c = "M" -> "m"
      [] c = "O" -> "o"
      [] OTHER -> c

ToLower(s) == [i \in 1..Len(s) |-> Lower(s[i])]

\* strings.ReplaceAll(s, c, "") for a one-character c
ReplaceAll(s, c) == SelectSeq(s, LAMBDA x : x # c)

\* Deduplicator.normalizeArtistName
normalizeArtistName(name) ==
    ReplaceAll(ReplaceAll(ReplaceAll(ToLower(name), " "), "."), "-")

\* time.Time.Format("20060102"): the calendar day of a DateTime
dateOnly(t) == <<ToString(t \div TicksPerDay)>>

\* Deduplicator.normalizeEventKey
normalizeEventKey(event) ==
    normalizeArtistName(event.ArtistName) \o <<"_">>
        \o ToLower(ReplaceAll(event.VenueName, " ")) \o <<"_">>
        \o dateOnly(event.DateTime)

\* The key the Deduplicator gives a record of either kind
KeyOf(kind, x) ==
    IF kind = "artists" THEN normalizeArtistName(x.Name) ELSE normalizeEventKey(x)

\* ------------------------------------------------------------- records
Radiohead == <<"R", "h">>
RadioheadDot == <<"r", "h", ".">>
Muse == <<"M", "u">>
O2 == <<"O", "2">>
O2Spaced == <<"o", " ", "2">>

Popularities == {70, 90}

\* domain.Artist: the fields the aggregator reads, and the source that made it
Artist(name, popularity, src) == [Name |-> name, Popularity |-> popularity, Src |-> src]

\* domain.Event: the fields the aggregator reads, and the source that made it
Event(artist, venue, dateTime, src) ==
    [ArtistName |-> artist, VenueName |-> venue, DateTime |-> dateTime, Src |-> src]

\* the artists and events the drawn lists are made of
ArtistPool ==
    {Artist(n, p, "a") : n \in {Radiohead, Muse}, p \in Popularities}
      \cup {Artist(RadioheadDot, p, "b") : p \in Popularities}
      \cup {Artist(Radiohead, 90, "b")}
EventPool ==
    {Event(Radiohead, O2, t, "a") : t \in 0..MaxTick}
      \cup {Event(RadioheadDot, O2Spaced, t, "b") : t \in 0..MaxTick}

\* ------------------------------------------------------------ pipeline
RECURSIVE DedupFromForgets(_, _, _, _)
\* the loop of the Deduplicator without seen[key] = true
DedupFromForgets(kind, list, seen, unique) ==
    IF list = <<>> THEN unique
    ELSE LET key == KeyOf(kind, Head(list))
         IN  IF key \notin seen
             THEN DedupFromForgets(kind, Tail(list), seen, Append(unique, Head(list)))
             ELSE DedupFromForgets(kind, Tail(list), seen, unique)

RECURSIVE DedupFromKeepsLast(_, _, _, _)
\* a loop that puts a later record with a seen key in the place of the kept one
DedupFromKeepsLast(kind, list, seen, unique) ==
    IF list = <<>> THEN unique
    ELSE LET key == KeyOf(kind, Head(list))
         IN  IF key \notin seen
             THEN DedupFromKeepsLast(kind, Tail(list), seen \cup {key},
                                     Append(unique, Head(list)))
             ELSE DedupFromKeepsLast(kind, Tail(list), seen,
                                     [i \in 1..Len(unique) |->
                                         IF KeyOf(kind, unique[i]) = key
                                         THEN Head(list) ELSE unique[i]])

RECURSIVE DedupFrom(_, _, _, _)
\* the loop of DeduplicateArtists / DeduplicateEvents: seen and unique so far
DedupFrom(kind, list, seen, unique) ==
    IF list = <<>> THEN unique
    ELSE LET key == KeyOf(kind, Head(list))
         IN  IF key \notin seen
             THEN DedupFrom(kind, Tail(list), seen \cup {key}, Append(unique, Head(list)))
             ELSE DedupFrom(kind, Tail(list), seen, unique)

\* Deduplicator.DeduplicateArtists
DeduplicateArtists(artists) == DedupFrom("artists", artists, {}, <<>>)

\* Deduplicator.DeduplicateEvents
DeduplicateEvents(events) == DedupFrom("events", events, {}, <<>>)

\* less with the comparison turned round
ArtistLessAscending(a, b) == a.Popularity < b.Popularity

\* the less function SearchArtists hands to sort.Slice
ArtistLess(a, b) == a.Popularity > b.Popularity

\* less by start time alone, upcoming or not
EventLessByDate(a, b, now) == a.DateTime < b.DateTime

\* the less function SearchEvents / SearchEventsByLocation hand to sort.Slice
EventLess(a, b, now) ==
    LET iUpcoming == a.DateTime > now
        jUpcoming == b.DateTime > now
    IN  IF iUpcoming /\ ~jUpcoming THEN TRUE
        ELSE IF ~iUpcoming /\ jUpcoming THEN FALSE
        ELSE a.DateTime < b.DateTime

Less(kind, a, b, now) ==
    IF kind = "artists" THEN ArtistLess(a, b) ELSE EventLess(a, b, now)

\* every way to put x into the sorted sequence s that keeps it sorted
Insertions(kind, s, x, now) ==
    { SubSeq(s, 1, k) \o <<x>> \o SubSeq(s, k + 1, Len(s)) :
        k \in { j \in 0..Len(s) :
                  /\ \A i \in 1..j : ~Less(kind, x, s[i], now)
                  /\ \A i \in (j + 1)..Len(s) : ~Less(kind, s[i], x, now) } }

\* sort.Slice: not stable, so every permutation of the input that is ordered
\* by less is a possible outcome
RECURSIVE SortSlice(_, _, _)
SortSlice(kind, list, now) ==
    IF list = <<>> THEN {<<>>}
    ELSE UNION { Insertions(kind, s, Head(list), now) :
                   s \in SortSlice(kind, Tail(list), now) }

\* the list as it is, however long
TruncateKeepsAll(list, limit) == list

\* the end of the list in place of its head
TruncateTail(list, limit) ==
    IF Len(list) > limit THEN SubSeq(list, Len(list) - limit + 1, Len(list)) ELSE list

\* allArtists[:limit] / allEvents[:limit]
Truncate(list, limit) ==
    IF Len(list) > limit THEN SubSeq(list, 1, limit) ELSE list

\* the steps of a search after the drain loop: dedup if enabled, sort, truncate
Pipeline(kind, list, dedup, limit, now) ==
    LET d == IF ~dedup THEN list
             ELSE IF kind = "artists" THEN DeduplicateArtists(list)
             ELSE DeduplicateEvents(list)
    IN  { Truncate(s, limit) : s \in SortSlice(kind, d, now) }

\* --------------------------------------------------------------- state
VARIABLES
    config,          \* MegaAggregator.config after NewMegaAggregator
    musicSources,    \* MegaAggregator.musicSources: the registered names
    eventSources,    \* MegaAggregator.eventSources: the registered names
    scraperRegistry, \* ScraperRegistry.scrapers: the registered GetName()s
    artistCache,     \* AggregatorCache.artistCache
    eventCache,      \* AggregatorCache.eventCache
    clock,           \* time.Now()
    phase,           \* the caller: "idle", "drain" (in the range loop), "done"
    calls,           \* searches started so far
    kind,            \* the search running: "artists", "events", "location"
    query,           \* its query, artistName or city
    country,         \* the country of a SearchEventsByLocation, empty otherwise
    argLimit,        \* the limit its caller passed
    limit,           \* its limit after defaulting
    startTime,       \* its startTime
    upc,             \* each unit's position: "sem", "call", "send", "done"
    ures,            \* the SourceResult each unit built
    resultsChan,     \* the buffered results of resultsChan
    chanCap,         \* the capacity resultsChan was made with
    chanClosed,      \* close(resultsChan) has run
    semaphore,       \* tokens in the semaphore channel
    wg,              \* the WaitGroup counter
    merged,          \* allArtists / allEvents as the drain loop built it
    sourceStats,     \* sourceStats of the drain loop
    errors,          \* errors of the drain loop
    received,        \* history: SourceResults the range loop has taken
    results,         \* the *AggregatedResults returned, NoResults before
    retErr,          \* the error returned beside it
    hit,             \* the search was answered from the cache
    sortNow,         \* now of the sort step
    cancelled,       \* the sub-context is done (deadline or caller's cancel)
    prev,            \* history: the previous fresh search's inputs and list
    pipeKind,        \* the pipeline alone: the kind of list drawn
    pipeIn,          \* the list drawn
    pipeArgs,        \* DeduplicationEnabled, limit and now of the run
    pipeOut,         \* the list that came out
    pipeStep,        \* "idle", then "dedup" or "search": what was applied
    ops,             \* the cache alone: each caller's Get or Set in progress
    mutex,           \* AggregatorCache.mutex: readers inside, writer inside
    lastSet,         \* history: per keyspace and key, the last Set and its time
    limiter,         \* a rate limiter alone: the fields of the limiter struct
    mu,              \* rateLimiter.mu: the goroutine holding it, 0 when free
    gor,             \* each goroutine's Allow() in progress and its locals
    log,             \* history: the Allow() calls that returned, in order
    spotify,         \* ArtistAggregator.spotify: NilClient or what the client answers
    lastfm,          \* ArtistAggregator.lastfm: NilClient or what the client answers
    search,          \* ArtistAggregator.SearchArtists in progress and its locals
    request,         \* a call alone: the HTTP request, or the call on a service, and
                     \* what the collaborators answer
    response,        \* the response written or returned, and what was passed on
    searches         \* concurrent searches on one aggregator: each one's semaphore and units

aggVars == <<config, country, musicSources, eventSources, scraperRegistry, artistCache,
             eventCache, clock, phase, calls, kind, query, argLimit, limit,
             startTime, upc, ures, resultsChan, chanCap, chanClosed, semaphore, wg, merged,
             sourceStats, errors, received, results, retErr, hit, sortNow,
             cancelled,
             prev>>
pipeVars == <<pipeKind, pipeIn, pipeArgs, pipeOut, pipeStep>>
lockVars == <<ops, mutex, lastSet>>
limVars == <<limiter, mu, gor, log>>
twoVars == <<spotify, lastfm, search>>
httpVars == <<request, response>>
sideVars == <<limVars, twoVars, httpVars, searches>>
vars == <<aggVars, pipeVars, lockVars, sideVars>>

\* ---------------------------------------------------------- construction
DefaultMaxConcurrentRequests == 10
DefaultLimit == 50
\* config.CacheTTL, in ticks
CacheTTL == 2

MusicSourceNames == <<"spotify", "lastfm", "deezer", "apple_music", "soundcloud">>
EventSourceNames == <<"songkick", "ticketmaster", "bandsintown", "setlistfm", "eventbrite">>
ScraperNames == {"bandcamp"}
Queries == {<<"X">>}
\* the limits a caller passes
Limits == {0, 1}

NoResults == [None |-> TRUE]
NoPrev == [None |-> TRUE]
Nil == "nil"

\* NewMegaAggregator: the defaulting of the configuration
NewMegaAggregator(cfg) ==
    [cfg EXCEPT !.MaxConcurrentRequests =
        IF cfg.MaxConcurrentRequests = 0 THEN DefaultMaxConcurrentRequests
        ELSE cfg.MaxConcurrentRequests]

Configs ==
    [MaxConcurrentRequests : 0..MaxConcurrent, CacheEnabled : BOOLEAN,
     DeduplicationEnabled : BOOLEAN, IncludeScrapers : BOOLEAN]

\* ----------------------------------------------------------- collaborators
\* ScrapedEvent.ToEvent: artist, venue and date carry over
ToEvent(se) == Event(se.ArtistName, se.VenueName, se.Date, se.Src)

\* what each music source finds when its call succeeds
ArtistsOf(name) ==
    CASE name = "spotify" -> <<Artist(Radiohead, 90, name)>>
      [] name = "lastfm" -> <<Artist(RadioheadDot, 70, name), Artist(Muse, 90, name)>>
      [] name = "soundcloud" ->
            [i \in 1..(DefaultLimit + 1) |-> Artist(<<"M", ToString(i)>>, i, name)]
      [] OTHER -> <<Artist(Muse, 70, name)>>

\* what each event source finds when its call succeeds
EventsOf(name) ==
    CASE name = "songkick" -> <<Event(Radiohead, O2, TicksPerDay, name)>>
      [] name = "ticketmaster" ->
            <<Event(RadioheadDot, O2Spaced, TicksPerDay + 1, name),
              Event(Radiohead, O2, 0, name)>>
      [] name = "bandcamp" ->
            <<Event(Radiohead, O2, 0, name), Event(Radiohead, O2, TicksPerDay, name)>>
      [] name = "eventbrite" ->
            [i \in 1..(DefaultLimit + 1) |-> Event(Radiohead, O2, i, name)]
      [] OTHER -> <<Event(Radiohead, O2, 0, name)>>

\* what each scraper scrapes when its call succeeds
ScrapedOf(name) ==
    <<[ArtistName |-> Radiohead, VenueName |-> O2Spaced, Date |-> TicksPerDay, Src |-> name]>>

\* the units of work of a search that launches the scrapers whatever
\* config.IncludeScrapers says
UnitsAlwaysScrapers(k, cfg, music, events, scrapers) ==
    IF k = "artists" THEN {<<"source", n>> : n \in music}
    ELSE {<<"source", n>> : n \in events} \cup {<<"scraper", n>> : n \in scrapers}

\* the units of work a search launches: one per source, one per scraper
Units(k, cfg, music, events, scrapers) ==
    IF k = "artists" THEN {<<"source", n>> : n \in music}
    ELSE {<<"source", n>> : n \in events}
         \cup (IF cfg.IncludeScrapers THEN {<<"scraper", n>> : n \in scrapers} ELSE {})

\* make(chan SourceResult, ...): SearchEvents counts the event sources only
ChanCapacity(k, cfg, music, events, scrapers) ==
    CASE k = "artists" -> Cardinality(music)
      [] k = "events" -> Cardinality(events)
      [] OTHER -> Cardinality(events)
                    + (IF cfg.IncludeScrapers THEN Cardinality(scrapers) ELSE 0)

\* the items a unit's collaborator returns on success; a search by location
\* that names a country is answered with events held there
Found(k, u) ==
    LET items == IF u[1] = "scraper"
                 THEN [i \in 1..Len(ScrapedOf(u[2])) |-> ToEvent(ScrapedOf(u[2])[i])]
                 ELSE IF k = "artists" THEN ArtistsOf(u[2]) ELSE EventsOf(u[2])
    IN  IF k = "location" /\ country # <<>>
        THEN [i \in 1..Len(items) |-> [items[i] EXCEPT !.VenueName = country]]
        ELSE items

\* the causes a collaborator fails with; a context error only once it is done
Causes(ctxDone) ==
    {"unavailable"} \cup (IF ctxDone THEN {"context canceled"} ELSE {})

\* the SourceResults a unit can build from its collaborator's return
Outcomes(k, u, ctxDone) ==
    {[SourceName |-> u[2], Items |-> Found(k, u), Error |-> Nil]}
      \cup {[SourceName |-> u[2], Items |-> <<>>, Error |-> c] : c \in Causes(ctxDone)}

\* GetSourceStats: a SourceInfo per registered name, the scrapers' only when
\* config.IncludeScrapers; a later loop overwrites an earlier one's entry
GetSourceStats(cfg, music, events, scrapers) ==
    LET listed == IF cfg.IncludeScrapers THEN scrapers ELSE {}
    IN  [n \in music \cup events \cup listed |->
            [Type |-> CASE n \in listed -> "scraper"
                        [] n \in events -> "events"
                        [] OTHER -> "music",
             Status |-> "active"]]

\* fmt.Sprintf("%s: %v", result.SourceName, result.Error)
FormatError(name, cause) == <<name, ": ", cause>>

\* fmt.Sprintf("%s_%d", query, limit)
ArtistCacheKey(q, l) == q \o <<"_", ToString(l)>>

\* fmt.Sprintf("%s_%s_%d", artistName, city, limit)
EventCacheKey(artistName, city, l) ==
    artistName \o <<"_">> \o city \o <<"_", ToString(l)>>

\* a key for the search by location that tells the countries apart
CacheKeyByCountry(k, q, c, l) ==
    CASE k = "artists" -> ArtistCacheKey(q, l)
      [] k = "events" -> EventCacheKey(q, <<>>, l)
      [] OTHER -> EventCacheKey(<<>>, q \o <<",">> \o c, l)

\* the key a search reads and writes its cache entry under: GetEvents and
\* SetEvents are passed "" and the city by the search by location, whose
\* country c goes to the sources only
CacheKey(k, q, c, l) ==
    CASE k = "artists" -> ArtistCacheKey(q, l)
      [] k = "events" -> EventCacheKey(q, <<>>, l)
      [] OTHER -> EventCacheKey(<<>>, q, l)

\* Get that takes an entry for expired from its ExpiresAt on
CacheGetAtExpiry(cache, key, now) ==
    IF key \notin DOMAIN cache \/ now >= cache[key].ExpiresAt THEN NoResults
    ELSE cache[key].Results

\* AggregatorCache.GetArtists / GetEvents: NoResults stands for nil
CacheGet(cache, key, now) ==
    IF key \notin DOMAIN cache \/ now > cache[key].ExpiresAt THEN NoResults
    ELSE cache[key].Results

\* Set with ExpiresAt: time.Now(), the ttl left out
CacheSetExpiresNow(cache, key, res, now) ==
    [x \in DOMAIN cache \cup {key} |->
        IF x = key THEN [Results |-> res, ExpiresAt |-> now] ELSE cache[x]]

\* Set that leaves an entry alone while it has not expired
CacheSetKeepsLive(cache, key, res, now) ==
    IF key \in DOMAIN cache /\ now <= cache[key].ExpiresAt THEN cache
    ELSE [x \in DOMAIN cache \cup {key} |->
            IF x = key THEN [Results |-> res, ExpiresAt |-> now + CacheTTL]
            ELSE cache[x]]

\* Set that drops the expired entries of the other keys as it stores
CacheSetSweeps(cache, key, res, now) ==
    [x \in {y \in DOMAIN cache : now <= cache[y].ExpiresAt} \cup {key} |->
        IF x = key THEN [Results |-> res, ExpiresAt |-> now + CacheTTL] ELSE cache[x]]

\* Set that stores only the results of a search without errors
CacheSetUnlessErrors(cache, key, res, now) ==
    IF res.Errors # <<>> THEN cache
    ELSE [x \in DOMAIN cache \cup {key} |->
            IF x = key THEN [Results |-> res, ExpiresAt |-> now + CacheTTL]
            ELSE cache[x]]

\* AggregatorCache.SetArtists / SetEvents
CacheSet(cache, key, res, now) ==
    [x \in DOMAIN cache \cup {key} |->
        IF x = key THEN [Results |-> res, ExpiresAt |-> now + CacheTTL] ELSE cache[x]]

\* ------------------------------------------------------------ the search
Prefix(names, n) == {names[i] : i \in 1..n}

CacheOf(k) == IF k = "artists" THEN artistCache ELSE eventCache

\* a new aggregator but for its registries: the configuration after its
\* defaulting, empty caches, no search made
AggFields(configs) ==
    /\ config \in {NewMegaAggregator(c) : c \in configs}
    /\ artistCache = <<>>
    /\ eventCache = <<>>
    /\ clock = 0
    /\ phase = "idle"
    /\ calls = 0
    /\ kind = "artists"
    /\ query = <<>>
    /\ country = <<>>
    /\ argLimit = 0
    /\ limit = 0
    /\ startTime = 0
    /\ upc = <<>>
    /\ ures = <<>>
    /\ resultsChan = <<>>
    /\ chanCap = 0
    /\ chanClosed = FALSE
    /\ semaphore = 0
    /\ wg = 0
    /\ merged = <<>>
    /\ sourceStats = <<>>
    /\ errors = <<>>
    /\ received = 0
    /\ results = NoResults
    /\ retErr = Nil
    /\ hit = FALSE
    /\ sortNow = 0
    /\ cancelled = FALSE
    /\ prev = NoPrev

\* a new aggregator after its Register* calls
AggInit(configs) ==
    /\ AggFields(configs)
    /\ \E n \in 0..MaxSources :
          /\ musicSources = Prefix(MusicSourceNames, n)
          /\ eventSources = Prefix(EventSourceNames, n)
    /\ scraperRegistry = ScraperNames

\* the list of an AggregatedResults that its search fills
ItemsOf(k, res) == IF k = "artists" THEN res.Artists ELSE res.Events

\* what the history keeps of a search that ran its sources
Remember ==
    IF phase = "done" /\ ~hit
    THEN [Kind |-> kind, Arg |-> argLimit, Limit |-> limit, Sources |-> ures,
          Now |-> sortNow,
          Items |-> ItemsOf(kind, results)]
    ELSE prev

\* the limit as passed on, zero and negative limits too
EffectiveLimitKeeps(l) == l

\* if limit <= 0 { limit = 50 }
EffectiveLimit(l) == IF l <= 0 THEN DefaultLimit ELSE l

\* SearchArtists / SearchEvents / SearchEventsByLocation up to the range loop:
\* the limit's default, the cache lookup, then the launch of every unit and of
\* the closer; c is the country of a search by location
CallIn(k, q, c, l) ==
    /\ LET lim == EffectiveLimit(l)
           cached == IF config.CacheEnabled
                     THEN CacheGet(CacheOf(k), CacheKey(k, q, c, lim), clock)
                     ELSE NoResults
           units == Units(k, config, musicSources, eventSources, scraperRegistry)
       IN  /\ calls' = calls + 1
           /\ kind' = k
           /\ query' = q
           /\ country' = c
           /\ argLimit' = l
           /\ limit' = lim
           /\ startTime' = clock
           /\ prev' = Remember
           /\ resultsChan' = <<>>
           /\ chanClosed' = FALSE
           /\ semaphore' = 0
           /\ merged' = <<>>
           /\ sourceStats' = <<>>
           /\ errors' = <<>>
           /\ received' = 0
           /\ ures' = <<>>
           /\ cancelled' = FALSE
           /\ sortNow' = clock
           /\ retErr' = Nil
           /\ IF cached # NoResults
              THEN /\ results' = cached
                   /\ hit' = TRUE
                   /\ phase' = "done"
                   /\ upc' = <<>>
                   /\ wg' = 0
                   /\ chanCap' = 0
              ELSE /\ results' = NoResults
                   /\ hit' = FALSE
                   /\ phase' = "drain"
                   /\ upc' = [u \in units |-> "sem"]
                   /\ wg' = Cardinality(units)
                   /\ chanCap' = ChanCapacity(k, config, musicSources, eventSources,
                                              scraperRegistry)
    /\ UNCHANGED <<config, musicSources, eventSources, scraperRegistry, artistCache,
                   eventCache, clock, pipeVars, lockVars, sideVars>>

\* a search whose caller names no country
Call(k, q, l) == CallIn(k, q, <<>>, l)

\* time passes; the clock is read when a search starts and when it sorts, so a
\* tick before the sort stands for all the time since the search started
Tick ==
    /\ clock < MaxClock
    /\ phase = "drain" /\ chanClosed /\ resultsChan = <<>>
    /\ clock' = clock + 1
    /\ UNCHANGED <<config, country, musicSources, eventSources, scraperRegistry, artistCache,
                   eventCache, phase, calls, kind, query, argLimit, limit, startTime, upc, ures,
                   resultsChan, chanCap, chanClosed, semaphore, wg, merged, sourceStats,
                   errors, received, results, retErr, hit, sortNow, cancelled, prev,
                   pipeVars, lockVars, sideVars>>

\* what a step of a unit, of the closer or of the range loop leaves alone
callFrame == <<config, country, musicSources, eventSources, scraperRegistry, artistCache,
               eventCache, clock, phase, calls, kind, query, argLimit, limit, startTime,
               results, retErr, hit, sortNow, prev, pipeVars, lockVars, sideVars>>
drainVars == <<merged, sourceStats, errors, received>>

\* Acquire without the semaphore: the goroutine calls its collaborator at once
AcquireUnbounded(u) ==
    /\ phase = "drain"
    /\ upc[u] = "sem"
    /\ semaphore' = semaphore + 1
    /\ upc' = [upc EXCEPT ![u] = "call"]
    /\ UNCHANGED <<callFrame, drainVars, ures, resultsChan, chanCap, chanClosed, wg,
                   cancelled>>

\* semaphore <- struct{}{}
Acquire(u) ==
    /\ phase = "drain"
    /\ upc[u] = "sem"
    /\ semaphore < config.MaxConcurrentRequests
    /\ semaphore' = semaphore + 1
    /\ upc' = [upc EXCEPT ![u] = "call"]
    /\ UNCHANGED <<callFrame, drainVars, ures, resultsChan, chanCap, chanClosed, wg,
                   cancelled>>

\* the collaborator's call returns and the unit builds its SourceResult
Return(u) ==
    /\ phase = "drain"
    /\ upc[u] = "call"
    /\ \E r \in Outcomes(kind, u, cancelled) :
          ures' = [x \in DOMAIN ures \cup {u} |-> IF x = u THEN r ELSE ures[x]]
    /\ upc' = [upc EXCEPT ![u] = "send"]
    /\ UNCHANGED <<callFrame, drainVars, resultsChan, chanCap, chanClosed, semaphore,
                   wg, cancelled>>

\* Send that never returns its semaphore slot
SendKeepsSlot(u) ==
    /\ phase = "drain"
    /\ upc[u] = "send"
    /\ Len(resultsChan) < chanCap
    /\ resultsChan' = Append(resultsChan, ures[u])
    /\ wg' = wg - 1
    /\ upc' = [upc EXCEPT ![u] = "done"]
    /\ UNCHANGED <<callFrame, drainVars, ures, chanCap, chanClosed, semaphore,
                   cancelled>>

\* resultsChan <- SourceResult{...} into a free buffer slot, then the unit's
\* deferred <-semaphore and wg.Done()
Send(u) ==
    /\ phase = "drain"
    /\ upc[u] = "send"
    /\ Len(resultsChan) < chanCap
    /\ resultsChan' = Append(resultsChan, ures[u])
    /\ semaphore' = semaphore - 1
    /\ wg' = wg - 1
    /\ upc' = [upc EXCEPT ![u] = "done"]
    /\ UNCHANGED <<callFrame, drainVars, ures, chanCap, chanClosed, cancelled>>

\* Collect that swallows a failing source: nothing is appended to errors
CollectSwallowsError(r) ==
    /\ received' = received + 1
    /\ IF r.Error # Nil
       THEN UNCHANGED <<errors, sourceStats, merged>>
       ELSE /\ sourceStats' = [n \in DOMAIN sourceStats \cup {r.SourceName} |->
                                  IF n = r.SourceName THEN Len(r.Items)
                                  ELSE sourceStats[n]]
            /\ merged' = merged \o r.Items
            /\ UNCHANGED errors

\* Collect without the continue: a failing source is counted in sourceStats too
CollectFallsThrough(r) ==
    /\ received' = received + 1
    /\ errors' = IF r.Error # Nil
                 THEN Append(errors, FormatError(r.SourceName, r.Error))
                 ELSE errors
    /\ sourceStats' = [n \in DOMAIN sourceStats \cup {r.SourceName} |->
                          IF n = r.SourceName THEN Len(r.Items) ELSE sourceStats[n]]
    /\ merged' = merged \o r.Items

\* the body of the range loop for one SourceResult
Collect(r) ==
    /\ received' = received + 1
    /\ IF r.Error # Nil
       THEN /\ errors' = Append(errors, FormatError(r.SourceName, r.Error))
            /\ UNCHANGED <<sourceStats, merged>>
       ELSE /\ sourceStats' = [n \in DOMAIN sourceStats \cup {r.SourceName} |->
                                  IF n = r.SourceName THEN Len(r.Items)
                                  ELSE sourceStats[n]]
            /\ merged' = merged \o r.Items
            /\ UNCHANGED errors

\* resultsChan <- SourceResult{...} on a channel made without a buffer: the
\* send meets the range loop's receive; then the unit's deferred calls
Handoff(u) ==
    /\ phase = "drain"
    /\ upc[u] = "send"
    /\ chanCap = 0
    /\ Collect(ures[u])
    /\ semaphore' = semaphore - 1
    /\ wg' = wg - 1
    /\ upc' = [upc EXCEPT ![u] = "done"]
    /\ UNCHANGED <<callFrame, ures, resultsChan, chanCap, chanClosed, cancelled>>

\* a closer that does not wait for the units
CloseBeforeDone ==
    /\ phase = "drain"
    /\ ~chanClosed
    /\ chanClosed' = TRUE
    /\ UNCHANGED <<callFrame, drainVars, upc, ures, resultsChan, chanCap, semaphore,
                   wg, cancelled>>

\* the closer: wg.Wait() then close(resultsChan)
Close ==
    /\ phase = "drain"
    /\ ~chanClosed
    /\ wg = 0
    /\ chanClosed' = TRUE
    /\ UNCHANGED <<callFrame, drainVars, upc, ures, resultsChan, chanCap, semaphore,
                   wg, cancelled>>

\* the range loop receives a buffered SourceResult
Receive ==
    /\ phase = "drain"
    /\ resultsChan # <<>>
    /\ Collect(Head(resultsChan))
    /\ resultsChan' = Tail(resultsChan)
    /\ UNCHANGED <<callFrame, upc, ures, chanCap, chanClosed, semaphore, wg, cancelled>>

\* the sub-context's deadline passes or the caller cancels
Cancel ==
    /\ phase = "drain"
    /\ ~cancelled
    /\ cancelled' = TRUE
    /\ UNCHANGED <<callFrame, drainVars, upc, ures, resultsChan, chanCap, chanClosed,
                   semaphore, wg>>

\* the range loop ends on the closed, drained channel; then dedup, sort,
\* truncate, the AggregatedResults, the cache write and the return
Finish ==
    /\ phase = "drain"
    /\ chanClosed
    /\ resultsChan = <<>>
    /\ \E items \in Pipeline(kind, merged, config.DeduplicationEnabled, limit, clock) :
          LET res == [Artists |-> IF kind = "artists" THEN items ELSE <<>>,
                      Events |-> IF kind = "artists" THEN <<>> ELSE items,
                      SourceStats |-> sourceStats,
                      TotalResults |-> Len(items),
                      SearchTime |-> clock - startTime,
                      Errors |-> errors]
              key == CacheKey(kind, query, country, limit)
          IN  /\ results' = res
              /\ artistCache' = IF config.CacheEnabled /\ kind = "artists"
                                THEN CacheSet(artistCache, key, res, clock)
                                ELSE artistCache
              /\ eventCache' = IF config.CacheEnabled /\ kind # "artists"
                               THEN CacheSet(eventCache, key, res, clock)
                               ELSE eventCache
    /\ retErr' = Nil
    /\ sortNow' = clock
    /\ phase' = "done"
    /\ UNCHANGED <<config, country, musicSources, eventSources, scraperRegistry, clock, calls,
                   kind, query, argLimit, limit, startTime, drainVars, upc, ures, resultsChan,
                   chanCap, chanClosed, semaphore, wg, hit, cancelled, prev, pipeVars, lockVars, sideVars>>

NoArgs == [Dedup |-> FALSE, Limit |-> 0, Now |-> 0]

PipeIdle ==
    /\ pipeKind = "artists"
    /\ pipeIn = <<>>
    /\ pipeArgs = NoArgs
    /\ pipeOut = <<>>
    /\ pipeStep = "idle"

\* sync.RWMutex: how many hold the read lock, whether one holds the write lock
Unlocked == [readers |-> 0, writer |-> FALSE]

\* nobody calls the cache but the searches
LockIdle ==
    /\ ops = <<>>
    /\ mutex = Unlocked
    /\ lastSet = <<>>

\* no rate limiter, two-source aggregator or HTTP handler under study
NoLimiter == [type |-> "none"]
NoSearch == [pc |-> "none"]
\* a nil *SpotifyClient or *LastFMClient
NilClient == [client |-> Nil]
NoRequest == [handler |-> "none"]
NoResponse == [status |-> 0]
LimIdle ==
    /\ limiter = NoLimiter
    /\ mu = 0
    /\ gor = <<>>
    /\ log = <<>>
TwoIdle ==
    /\ spotify = NilClient
    /\ lastfm = NilClient
    /\ search = NoSearch
HttpIdle ==
    /\ request = NoRequest
    /\ response = NoResponse
ManyIdle == searches = <<>>
SideIdle == LimIdle /\ TwoIdle /\ HttpIdle /\ ManyIdle

\* one search on an aggregator built without a cache
Init == AggInit({c \in Configs : ~c.CacheEnabled}) /\ PipeIdle /\ LockIdle /\ SideIdle

Kinds == {"artists", "events", "location"}

\* the first search on the aggregator
StartCall ==
    /\ phase = "idle"
    /\ \E k \in Kinds, q \in Queries, l \in Limits : Call(k, q, l)
UnitAcquire == \E u \in DOMAIN upc : Acquire(u)
UnitReturn == \E u \in DOMAIN upc : Return(u)
UnitSend == \E u \in DOMAIN upc : Send(u)
UnitHandoff == \E u \in DOMAIN upc : Handoff(u)

Next ==
    \/ StartCall
    \/ Tick
    \/ UnitAcquire
    \/ UnitReturn
    \/ UnitSend
    \/ UnitHandoff
    \/ Close
    \/ Receive
    \/ Cancel
    \/ Finish

Spec == Init /\ [][Next]_vars

\* ------------------------------------------- searches one after the other
\* a further search once the last one has returned
Again ==
    /\ phase = "done"
    /\ calls < MaxCalls
    /\ \E k \in Kinds, q \in Queries, l \in Limits : Call(k, q, l)

\* time passes between two searches
Elapse ==
    /\ phase = "done"
    /\ calls < MaxCalls
    /\ clock < MaxClock
    /\ clock' = clock + 1
    /\ UNCHANGED <<config, country, musicSources, eventSources, scraperRegistry, artistCache,
                   eventCache, phase, calls, kind, query, argLimit, limit, startTime, upc, ures,
                   resultsChan, chanCap, chanClosed, semaphore, wg, drainVars, results,
                   retErr, hit, sortNow, cancelled, prev, pipeVars, lockVars, sideVars>>

\* aggregators with the default concurrency and without scrapers
RepeatInit ==
    /\ AggInit({c \in Configs : c.MaxConcurrentRequests = 0 /\ ~c.IncludeScrapers})
    /\ PipeIdle
    /\ LockIdle
    /\ SideIdle

RepeatNext ==
    \/ StartCall
    \/ Again
    \/ Elapse
    \/ Tick
    \/ UnitAcquire
    \/ UnitReturn
    \/ UnitSend
    \/ Close
    \/ Receive
    \/ Finish

SpecRepeat == RepeatInit /\ [][RepeatNext]_vars

\* ------------------------------------------------------ the pipeline alone
SeqsUpTo(S, n) == UNION {[1..k -> S] : k \in 0..n}

AggIdle ==
    /\ config = NewMegaAggregator([MaxConcurrentRequests |-> 0, CacheEnabled |-> FALSE,
                                   DeduplicationEnabled |-> TRUE,
                                   IncludeScrapers |-> FALSE])
    /\ musicSources = {}
    /\ eventSources = {}
    /\ scraperRegistry = {}
    /\ artistCache = <<>>
    /\ eventCache = <<>>
    /\ clock = 0
    /\ phase = "idle"
    /\ calls = 0
    /\ kind = "artists"
    /\ query = <<>>
    /\ country = <<>>
    /\ argLimit = 0
    /\ limit = 0
    /\ startTime = 0
    /\ upc = <<>>
    /\ ures = <<>>
    /\ resultsChan = <<>>
    /\ chanCap = 0
    /\ chanClosed = FALSE
    /\ semaphore = 0
    /\ wg = 0
    /\ merged = <<>>
    /\ sourceStats = <<>>
    /\ errors = <<>>
    /\ received = 0
    /\ results = NoResults
    /\ retErr = Nil
    /\ hit = FALSE
    /\ sortNow = 0
    /\ cancelled = FALSE
    /\ prev = NoPrev

PipeInit ==
    /\ AggIdle
    /\ pipeKind \in {"artists", "events"}
    /\ pipeIn \in SeqsUpTo(IF pipeKind = "artists" THEN ArtistPool ELSE EventPool, MaxLen)
    /\ pipeArgs = NoArgs
    /\ pipeOut = <<>>
    /\ pipeStep = "idle"
    /\ LockIdle
    /\ SideIdle

\* the limits, after defaulting, the pipeline is run with
PipeLimits == {1, 2, DefaultLimit}

\* DeduplicateArtists / DeduplicateEvents applied to the drawn list
PipeDedup ==
    /\ pipeStep = "idle"
    /\ pipeOut' = IF pipeKind = "artists" THEN DeduplicateArtists(pipeIn)
                  ELSE DeduplicateEvents(pipeIn)
    /\ pipeStep' = "dedup"
    /\ UNCHANGED <<aggVars, pipeKind, pipeIn, pipeArgs, lockVars, sideVars>>

\* the steps of a search after its range loop, applied to the drawn list
PipeSearch ==
    /\ pipeStep = "idle"
    /\ \E d \in BOOLEAN, l \in PipeLimits,
          now \in (IF pipeKind = "artists" THEN {0} ELSE 0..MaxTick) :
          /\ pipeArgs' = [Dedup |-> d, Limit |-> l, Now |-> now]
          /\ pipeOut' \in Pipeline(pipeKind, pipeIn, d, l, now)
    /\ pipeStep' = "search"
    /\ UNCHANGED <<aggVars, pipeKind, pipeIn, lockVars, sideVars>>

PipeNext == PipeDedup \/ PipeSearch

SpecPipe == PipeInit /\ [][PipeNext]_vars

\* ------------------------------------ searches with and without a limit
\* the limits a caller passes: negative and zero to leave the limit to the
\* aggregator, a limit of one, and the default itself
DefaultLimits == {-1, 0, 1, DefaultLimit}

\* an aggregator with a cache whose one music source and one event source
\* return one item more than the default limit
LimitInit ==
    /\ AggFields({c \in Configs : /\ c.CacheEnabled
                                  /\ ~c.IncludeScrapers
                                  /\ c.MaxConcurrentRequests = 0})
    /\ musicSources = {"soundcloud"}
    /\ eventSources = {"eventbrite"}
    /\ scraperRegistry = ScraperNames
    /\ PipeIdle
    /\ LockIdle
    /\ SideIdle

StartLimit ==
    /\ phase = "idle"
    /\ \E k \in Kinds, q \in Queries, l \in DefaultLimits : Call(k, q, l)

\* the search that has returned, called again with any of the limits
AgainLimit ==
    /\ phase = "done"
    /\ calls < MaxCalls
    /\ \E l \in DefaultLimits : Call(kind, query, l)

LimitNext ==
    \/ StartLimit
    \/ AgainLimit
    \/ Elapse
    \/ UnitAcquire
    \/ UnitReturn
    \/ UnitSend
    \/ Close
    \/ Receive
    \/ Finish

SpecLimit == LimitInit /\ [][LimitNext]_vars

\* ----------------------------------- searches that meet in the event cache
\* an artist name that begins and a city that ends with the separator of the
\* cache key
UnderX == <<"_", "X">>
XUnder == <<"X", "_">>
Countries == {<<"U", "S">>, <<"G", "B">>}

\* the searches a caller can make, each with the limit 1: only the search by
\* location has a country
KeySearches ==
    {<<"artists", XUnder, <<>>, 1>>, <<"events", UnderX, <<>>, 1>>}
      \cup {<<"location", XUnder, c, 1>> : c \in Countries}

\* an aggregator with its cache, the default concurrency, no scrapers, one
\* music source and two event sources
KeysInit ==
    /\ AggFields({c \in Configs : /\ c.CacheEnabled
                                  /\ c.DeduplicationEnabled
                                  /\ ~c.IncludeScrapers
                                  /\ c.MaxConcurrentRequests = 0})
    /\ musicSources = {"spotify"}
    /\ eventSources = {"songkick", "ticketmaster"}
    /\ scraperRegistry = ScraperNames
    /\ PipeIdle
    /\ LockIdle
    /\ SideIdle

StartKeys ==
    /\ phase = "idle"
    /\ \E s \in KeySearches : CallIn(s[1], s[2], s[3], s[4])

\* the search that follows the first one
AgainKeys ==
    /\ phase = "done"
    /\ calls = 1
    /\ \E s \in KeySearches : CallIn(s[1], s[2], s[3], s[4])

KeysNext ==
    \/ StartKeys
    \/ AgainKeys
    \/ Elapse
    \/ UnitAcquire
    \/ UnitReturn
    \/ UnitSend
    \/ Close
    \/ Receive
    \/ Cancel
    \/ Finish

SpecKeys == KeysInit /\ [][KeysNext]_vars

\* ------------------------------- an event source named like a scraper
\* RegisterEventSource("bandcamp", ...) beside the scraper whose GetName() is
\* "bandcamp", or the scraper alone; scrapers included
CollideInit ==
    /\ AggFields({c \in Configs : /\ ~c.CacheEnabled
                                  /\ c.IncludeScrapers
                                  /\ c.MaxConcurrentRequests = 0})
    /\ musicSources = {}
    /\ eventSources \in {{}, ScraperNames}
    /\ scraperRegistry = ScraperNames
    /\ PipeIdle
    /\ LockIdle
    /\ SideIdle

SpecCollide == CollideInit /\ [][Next]_vars

\* -------------------------------------------------------- the cache alone
\* the goroutines that call the cache
Threads == 1..MaxThreads

\* a goroutine outside the cache
Idle == [op |-> "idle"]

\* the query of GetArtists / SetArtists: with the limit it makes the key that
\* the artistName "X" and no city make in the other keyspace
CacheQueries == {<<"X", "_">>}
\* the artistName and city of GetEvents / SetEvents: one of them empty
CacheEvents == {<<(<<"X">>), <<>>>>, <<<<>>, (<<"X">>)>>}
\* the limit of the cache's callers
CacheLimits == {1}

\* the AggregatedResults the callers store
EmptyResults ==
    [Artists |-> <<>>, Events |-> <<>>, SourceStats |-> <<>>, TotalResults |-> 0,
     SearchTime |-> 0, Errors |-> <<>>]
OneResult ==
    [Artists |-> <<Artist(Radiohead, 90, "spotify")>>, Events |-> <<>>,
     SourceStats |-> [n \in {"spotify"} |-> 1], TotalResults |-> 1,
     SearchTime |-> 0, Errors |-> <<>>]
ResultPool == {EmptyResults, OneResult}

\* every key a caller of the model can name, in either keyspace
CacheKeys ==
    {ArtistCacheKey(q, l) : q \in CacheQueries, l \in CacheLimits}
      \cup {EventCacheKey(e[1], e[2], l) : e \in CacheEvents, l \in CacheLimits}

\* mutex.RLock() succeeds: no writer holds the lock
CanRLock(m) == ~m.writer

\* Lock that waits for the writer only
CanLockBesideReaders(m) == ~m.writer

\* mutex.Lock() succeeds: nobody holds the lock
CanLock(m) == ~m.writer /\ m.readers = 0

\* the entry stored under a key, NoResults when there is none
EntryOf(cache, key) == IF key \in DOMAIN cache THEN cache[key] ELSE NoResults

\* history: the Set just made on a key
NoteSet(space, key, res, now) ==
    [lastSet EXCEPT ![space] =
        [x \in DOMAIN lastSet[space] \cup {key} |->
            IF x = key THEN [Results |-> res, At |-> now] ELSE lastSet[space][x]]]

CacheInit ==
    /\ AggIdle
    /\ PipeIdle
    /\ ops = [t \in Threads |-> Idle]
    /\ mutex = Unlocked
    /\ lastSet = [artists |-> <<>>, events |-> <<>>]
    /\ SideIdle

cacheFrame == <<config, country, musicSources, eventSources, scraperRegistry, phase, calls,
                kind, query, argLimit, limit, startTime, upc, ures, resultsChan,
                chanCap, chanClosed, semaphore, wg, drainVars, results, retErr, hit,
                sortNow, cancelled, prev, pipeVars, sideVars>>

\* GetArtists up to its return value: RLock, the key, the lookup
GetArtists(t, q, l) ==
    /\ ops[t] = Idle
    /\ CanRLock(mutex)
    /\ mutex' = [mutex EXCEPT !.readers = @ + 1]
    /\ LET key == ArtistCacheKey(q, l)
       IN  ops' = [ops EXCEPT ![t] = [op |-> "get", space |-> "artists", key |-> key,
                                      ret |-> CacheGet(artistCache, key, clock),
                                      at |-> clock]]
    /\ UNCHANGED <<cacheFrame, artistCache, eventCache, clock, lastSet>>

\* GetEvents up to its return value: RLock, the key, the lookup
GetEvents(t, artistName, city, l) ==
    /\ ops[t] = Idle
    /\ CanRLock(mutex)
    /\ mutex' = [mutex EXCEPT !.readers = @ + 1]
    /\ LET key == EventCacheKey(artistName, city, l)
       IN  ops' = [ops EXCEPT ![t] = [op |-> "get", space |-> "events", key |-> key,
                                      ret |-> CacheGet(eventCache, key, clock),
                                      at |-> clock]]
    /\ UNCHANGED <<cacheFrame, artistCache, eventCache, clock, lastSet>>

\* the deferred mutex.RUnlock() of a Get, and its return
RUnlock(t) ==
    /\ ops[t].op = "get"
    /\ mutex' = [mutex EXCEPT !.readers = @ - 1]
    /\ ops' = [ops EXCEPT ![t] = Idle]
    /\ UNCHANGED <<cacheFrame, artistCache, eventCache, clock, lastSet>>

\* SetArtists up to its deferred Unlock: Lock, the key, the store
SetArtists(t, q, l, res) ==
    /\ ops[t] = Idle
    /\ CanLock(mutex)
    /\ mutex' = [mutex EXCEPT !.writer = TRUE]
    /\ LET key == ArtistCacheKey(q, l)
       IN  /\ ops' = [ops EXCEPT ![t] = [op |-> "set", space |-> "artists",
                                         key |-> key, res |-> res,
                                         old |-> EntryOf(artistCache, key)]]
           /\ artistCache' = CacheSet(artistCache, key, res, clock)
           /\ lastSet' = NoteSet("artists", key, res, clock)
    /\ UNCHANGED <<cacheFrame, eventCache, clock>>

\* SetEvents that stores into both maps
SetEventsShared(t, artistName, city, l, res) ==
    /\ ops[t] = Idle
    /\ CanLock(mutex)
    /\ mutex' = [mutex EXCEPT !.writer = TRUE]
    /\ LET key == EventCacheKey(artistName, city, l)
       IN  /\ ops' = [ops EXCEPT ![t] = [op |-> "set", space |-> "events",
                                         key |-> key, res |-> res,
                                         old |-> EntryOf(eventCache, key)]]
           /\ eventCache' = CacheSet(eventCache, key, res, clock)
           /\ artistCache' = CacheSet(artistCache, key, res, clock)
           /\ lastSet' = NoteSet("events", key, res, clock)
    /\ UNCHANGED <<cacheFrame, clock>>

\* SetEvents up to its deferred Unlock: Lock, the key, the store
SetEvents(t, artistName, city, l, res) ==
    /\ ops[t] = Idle
    /\ CanLock(mutex)
    /\ mutex' = [mutex EXCEPT !.writer = TRUE]
    /\ LET key == EventCacheKey(artistName, city, l)
       IN  /\ ops' = [ops EXCEPT ![t] = [op |-> "set", space |-> "events",
                                         key |-> key, res |-> res,
                                         old |-> EntryOf(eventCache, key)]]
           /\ eventCache' = CacheSet(eventCache, key, res, clock)
           /\ lastSet' = NoteSet("events", key, res, clock)
    /\ UNCHANGED <<cacheFrame, artistCache, clock>>

\* the deferred mutex.Unlock() of a Set, and its return
Unlock(t) ==
    /\ ops[t].op = "set"
    /\ mutex' = [mutex EXCEPT !.writer = FALSE]
    /\ ops' = [ops EXCEPT ![t] = Idle]
    /\ UNCHANGED <<cacheFrame, artistCache, eventCache, clock, lastSet>>

\* time passes for the cache's callers
CacheElapse ==
    /\ clock < MaxClock
    /\ clock' = clock + 1
    /\ UNCHANGED <<cacheFrame, artistCache, eventCache, lockVars, sideVars>>

CallGetArtists == \E t \in Threads, q \in CacheQueries, l \in CacheLimits : GetArtists(t, q, l)
CallGetEvents ==
    \E t \in Threads, e \in CacheEvents, l \in CacheLimits : GetEvents(t, e[1], e[2], l)
CallSetArtists ==
    \E t \in Threads, q \in CacheQueries, l \in CacheLimits, res \in ResultPool :
        SetArtists(t, q, l, res)
CallSetEvents ==
    \E t \in Threads, e \in CacheEvents, l \in CacheLimits, res \in ResultPool :
        SetEvents(t, e[1], e[2], l, res)
ReturnGet == \E t \in Threads : RUnlock(t)
ReturnSet == \E t \in Threads : Unlock(t)

CacheNext ==
    \/ CallGetArtists
    \/ CallGetEvents
    \/ CallSetArtists
    \/ CallSetEvents
    \/ ReturnGet
    \/ ReturnSet
    \/ CacheElapse

SpecCache == CacheInit /\ [][CacheNext]_vars

\* ------------------------------------------------------- rate limiters alone
\* time.Time and time.Duration count half seconds
Second == 2
Hour == 3600 * Second
Day == 24 * Hour

\* time.Time{}: the lastRequest of a throttle that has not been used
ZeroTime == -1

\* the largest limit a limiter is built with
MaxLimit == 2
\* Allow() calls made on the limiter, over all goroutines
MaxAllows == 3

ErrRateLimitExceeded == "rate limit exceeded"

\* newRateLimiter of the Bandsintown client: the fixed daily window
newDailyRateLimiter(dailyLimit, now) ==
    [type |-> "fixed", requests |-> 0, windowStart |-> now, dailyLimit |-> dailyLimit]

\* newEventRateLimiter: the log of the last 24 hours
newEventRateLimiter(dailyLimit) ==
    [type |-> "sliding", requests |-> <<>>, limit |-> dailyLimit, windowSize |-> Day]

\* newRateLimiter of the music sources: the log of the last hour
newRateLimiter(hourlyLimit) ==
    [type |-> "sliding", requests |-> <<>>, limit |-> hourlyLimit, windowSize |-> Hour]

\* newMusicBrainzRateLimiter: lastRequest is left at its zero value
newMusicBrainzRateLimiter ==
    [type |-> "throttle", lastRequest |-> ZeroTime, interval |-> Second]

\* the limiters a client is built with, at time 0
Limiters ==
    {newDailyRateLimiter(l, 0) : l \in 1..MaxLimit}
      \cup {newEventRateLimiter(l) : l \in 1..MaxLimit}
      \cup {newRateLimiter(l) : l \in 1..MaxLimit}
      \cup {newMusicBrainzRateLimiter}

\* the duration a limiter compares against
Span(r) ==
    CASE r.type = "fixed" -> Day
      [] r.type = "sliding" -> r.windowSize
      [] r.type = "throttle" -> r.interval

\* how much later than the last reading of the clock time.Now() can be: not at
\* all, a half second, a half second short of the limiter's span, or the span
Gaps(r) == {0, 1, Span(r) - 1, Span(r)}

Later(a, b) == IF a >= b THEN a ELSE b

GorIdle == [pc |-> "idle"]

\* Allow() calls begun so far
StartedAllows == Len(log) + Cardinality({g \in DOMAIN gor : gor[g].pc # "idle"})

\* a goroutine may call Allow()
CanCall(g) == gor[g].pc = "idle" /\ StartedAllows < MaxAllows

\* history: an Allow() that returned
Returned(g, at, err, after) ==
    Append(log, [g |-> g, now |-> gor[g].now, at |-> at, err |-> err,
                 before |-> gor[g].before, after |-> after,
                 slept |-> gor[g].pc = "stamp" /\ gor[g].slept])

limFrame == <<config, country, musicSources, eventSources, scraperRegistry, artistCache,
              eventCache, phase, calls, kind, query, argLimit, limit, startTime, upc,
              ures, resultsChan, chanCap, chanClosed, semaphore, wg, drainVars, results,
              retErr, hit, sortNow, cancelled, prev, pipeVars, lockVars, twoVars,
              httpVars, searches>>

\* the fixed window that is over once a day has passed, the last instant included
FixedWindowResetsAtDay(r, now) ==
    LET w == IF now - r.windowStart >= 24 * Hour
             THEN [r EXCEPT !.requests = 0, !.windowStart = now]
             ELSE r
    IN  IF w.requests >= w.dailyLimit
        THEN [r |-> w, err |-> ErrRateLimitExceeded]
        ELSE [r |-> [w EXCEPT !.requests = @ + 1], err |-> Nil]

\* the fixed window that begins anew as soon as it is full
FixedWindowResetsWhenFull(r, now) ==
    LET w == IF now - r.windowStart > 24 * Hour \/ r.requests >= r.dailyLimit
             THEN [r EXCEPT !.requests = 0, !.windowStart = now]
             ELSE r
    IN  IF w.requests >= w.dailyLimit
        THEN [r |-> w, err |-> ErrRateLimitExceeded]
        ELSE [r |-> [w EXCEPT !.requests = @ + 1], err |-> Nil]

\* the fixed window that counts the calls it rejects too
FixedWindowCountsRejected(r, now) ==
    LET w == IF now - r.windowStart > 24 * Hour
             THEN [r EXCEPT !.requests = 0, !.windowStart = now]
             ELSE r
    IN  [r |-> [w EXCEPT !.requests = @ + 1],
         err |-> IF w.requests >= w.dailyLimit THEN ErrRateLimitExceeded ELSE Nil]

\* the body of the fixed-window Allow(): the limiter it leaves and its error
FixedWindow(r, now) ==
    LET w == IF now - r.windowStart > 24 * Hour
             THEN [r EXCEPT !.requests = 0, !.windowStart = now]
             ELSE r
    IN  IF w.requests >= w.dailyLimit
        THEN [r |-> w, err |-> ErrRateLimitExceeded]
        ELSE [r |-> [w EXCEPT !.requests = @ + 1], err |-> Nil]

\* the fixed-window Allow() up to its return value: mu.Lock() and the body
DailyAllow(g) ==
    /\ limiter.type = "fixed"
    /\ CanCall(g)
    /\ mu = 0
    /\ mu' = g
    /\ \E d \in Gaps(limiter) :
         LET now == clock + d
             out == FixedWindow(limiter, now)
         IN  /\ clock' = now
             /\ limiter' = out.r
             /\ gor' = [gor EXCEPT ![g] = [pc |-> "unlock", now |-> now,
                                           err |-> out.err, before |-> limiter]]
    /\ UNCHANGED <<limFrame, log>>

\* the deferred mu.Unlock() of the fixed-window Allow(), and its return
DailyUnlock(g) ==
    /\ gor[g].pc = "unlock"
    /\ mu = g
    /\ mu' = 0
    /\ log' = Returned(g, gor[g].now, gor[g].err, limiter)
    /\ gor' = [gor EXCEPT ![g] = GorIdle]
    /\ UNCHANGED <<limFrame, clock, limiter>>

\* the sliding-window Allow(): now, the cutoff and the loop over r.requests
Prune(g) ==
    /\ limiter.type = "sliding"
    /\ CanCall(g)
    /\ \E d \in Gaps(limiter) :
         LET now == clock + d
             cutoff == now - limiter.windowSize
             After(reqTime) == reqTime > cutoff
         IN  /\ clock' = now
             /\ gor' = [gor EXCEPT ![g] =
                          [pc |-> "store", now |-> now, before |-> limiter,
                           validRequests |-> SelectSeq(limiter.requests, After)]]
    /\ UNCHANGED <<limFrame, limiter, mu, log>>

\* r.requests = validRequests
Store(g) ==
    /\ gor[g].pc = "store"
    /\ limiter' = [limiter EXCEPT !.requests = gor[g].validRequests]
    /\ gor' = [gor EXCEPT ![g].pc = "check"]
    /\ UNCHANGED <<limFrame, clock, mu, log>>

\* a check that lets a full log through
CheckAboveLimit(g) ==
    /\ gor[g].pc = "check"
    /\ IF Len(limiter.requests) > limiter.limit
       THEN /\ log' = Returned(g, gor[g].now, ErrRateLimitExceeded, limiter)
            /\ gor' = [gor EXCEPT ![g] = GorIdle]
       ELSE /\ gor' = [gor EXCEPT ![g].pc = "append"]
            /\ log' = log
    /\ UNCHANGED <<limFrame, clock, limiter, mu>>

\* the check against the limit, and the return of ErrRateLimitExceeded
Check(g) ==
    /\ gor[g].pc = "check"
    /\ IF Len(limiter.requests) >= limiter.limit
       THEN /\ log' = Returned(g, gor[g].now, ErrRateLimitExceeded, limiter)
            /\ gor' = [gor EXCEPT ![g] = GorIdle]
       ELSE /\ gor' = [gor EXCEPT ![g].pc = "append"]
            /\ log' = log
    /\ UNCHANGED <<limFrame, clock, limiter, mu>>

\* r.requests = append(r.requests, now), and the return of nil
AppendNow(g) ==
    /\ gor[g].pc = "append"
    /\ limiter' = [limiter EXCEPT !.requests = Append(@, gor[g].now)]
    /\ log' = Returned(g, gor[g].now, Nil, limiter')
    /\ gor' = [gor EXCEPT ![g] = GorIdle]
    /\ UNCHANGED <<limFrame, clock, mu>>

\* a comparison that lets the last half second of the interval through
SoonerButLast(now, lastRequest, interval) ==
    lastRequest # ZeroTime /\ now - lastRequest < interval - 1

\* now.Sub(r.lastRequest) < r.interval: Sub saturates at the largest Duration
\* for the zero Time, which no interval exceeds
Sooner(now, lastRequest, interval) ==
    lastRequest # ZeroTime /\ now - lastRequest < interval

\* a sleep that is a half second short
SleepTimeShort(r, now) == r.interval - (now - r.lastRequest) - 1

\* sleepTime := r.interval - now.Sub(r.lastRequest)
SleepTime(r, now) == r.interval - (now - r.lastRequest)

\* the throttle's Allow(): now and the comparison with lastRequest
Measure(g) ==
    /\ limiter.type = "throttle"
    /\ CanCall(g)
    /\ \E d \in Gaps(limiter) :
         LET now == clock + d
         IN  /\ clock' = now
             /\ gor' = [gor EXCEPT ![g] =
                          [pc |-> IF Sooner(now, limiter.lastRequest, limiter.interval)
                                  THEN "sleep" ELSE "stamp",
                           now |-> now, before |-> limiter, wake |-> now,
                           slept |-> FALSE]]
    /\ UNCHANGED <<limFrame, limiter, mu, log>>

\* sleepTime and time.Sleep(sleepTime): the goroutine wakes no earlier than
\* sleepTime after it read now; a Duration of zero or less does not sleep
Sleep(g) ==
    /\ gor[g].pc = "sleep"
    /\ gor' = [gor EXCEPT ![g].pc = "stamp",
                          ![g].slept = TRUE,
                          ![g].wake = gor[g].now
                                        + Later(SleepTime(limiter, gor[g].now), 0)]
    /\ UNCHANGED <<limFrame, clock, limiter, mu, log>>

\* r.lastRequest = time.Now(), and the return of nil
Stamp(g) ==
    /\ gor[g].pc = "stamp"
    /\ \E d \in Gaps(limiter) :
         LET at == Later(clock, gor[g].wake) + d
         IN  /\ clock' = at
             /\ limiter' = [limiter EXCEPT !.lastRequest = at]
             /\ log' = Returned(g, at, Nil, limiter')
    /\ gor' = [gor EXCEPT ![g] = GorIdle]
    /\ UNCHANGED <<limFrame, mu>>

\* a limiter just built, and the goroutines that share it
LimiterInit(callers) ==
    /\ AggIdle
    /\ PipeIdle
    /\ LockIdle
    /\ TwoIdle
    /\ HttpIdle
    /\ ManyIdle
    /\ limiter \in Limiters
    /\ mu = 0
    /\ gor = [g \in callers |-> GorIdle]
    /\ log = <<>>

LimiterNext ==
    \/ \E g \in DOMAIN gor : DailyAllow(g)
    \/ \E g \in DOMAIN gor : DailyUnlock(g)
    \/ \E g \in DOMAIN gor : Prune(g)
    \/ \E g \in DOMAIN gor : Store(g)
    \/ \E g \in DOMAIN gor : Check(g)
    \/ \E g \in DOMAIN gor : AppendNow(g)
    \/ \E g \in DOMAIN gor : Measure(g)
    \/ \E g \in DOMAIN gor : Sleep(g)
    \/ \E g \in DOMAIN gor : Stamp(g)

\* one goroutine calls Allow() again and again
SpecLimiter == LimiterInit({1}) /\ [][LimiterNext]_vars

\* two goroutines, of concurrent searches, share the limiter of one source
Pair == {1, 2}
SpecShared == LimiterInit(Pair) /\ [][LimiterNext]_vars

\* ------------------------------------------- the two-source ArtistAggregator
\* the longest list a client answers with
MaxAnswers == 2

\* a domain.Artist as the two-source aggregator reads it
ExternalArtist(name, lastFMID, genres) ==
    [Name |-> name, LastFMID |-> lastFMID, Genres |-> genres]

\* the artists the Spotify client and the Last.fm client can answer with
SpotifyPool ==
    {ExternalArtist("A", "", <<>>), ExternalArtist("A", "", <<"rock">>),
     ExternalArtist("B", "", <<>>)}
LastFMPool ==
    {ExternalArtist("A", "a1", <<"pop">>), ExternalArtist("B", "", <<>>)}

\* the error of a client whose request failed
ErrSearch == "failed to search artists"

\* what a client's SearchArtists returns: its list and a nil error, or nil and
\* its error
Answers(pool) ==
    {[artists |-> s, err |-> Nil] : s \in SeqsUpTo(pool, MaxAnswers)}
      \cup {[artists |-> <<>>, err |-> ErrSearch]}

\* both errors or either
AnyFailed(spotifyErr, lastfmErr) == spotifyErr # Nil \/ lastfmErr # Nil

\* spotifyErr != nil && lastfmErr != nil
AllFailed(spotifyErr, lastfmErr) == spotifyErr # Nil /\ lastfmErr # Nil

\* artistMap[artist.Name] = artist
Put(artistMap, artist) ==
    [n \in DOMAIN artistMap \cup {artist.Name} |->
        IF n = artist.Name THEN artist ELSE artistMap[n]]

\* the loop over spotifyArtists
RECURSIVE PutSpotify(_, _)
PutSpotify(artistMap, list) ==
    IF list = <<>> THEN artistMap
    ELSE PutSpotify(Put(artistMap, Head(list)), Tail(list))

\* the loop over lastfmArtists: an artist already in the map takes the
\* LastFMID and the genres it lacks, a new one is added
RECURSIVE PutLastFM(_, _)
PutLastFM(artistMap, list) ==
    IF list = <<>> THEN artistMap
    ELSE LET artist == Head(list)
             existing == artistMap[artist.Name]
             withID == IF existing.LastFMID = "" /\ artist.LastFMID # ""
                       THEN [existing EXCEPT !.LastFMID = artist.LastFMID]
                       ELSE existing
             withGenres == IF Len(withID.Genres) = 0 /\ Len(artist.Genres) > 0
                           THEN [withID EXCEPT !.Genres = artist.Genres]
                           ELSE withID
         IN  PutLastFM(IF artist.Name \in DOMAIN artistMap
                       THEN Put(artistMap, withGenres)
                       ELSE Put(artistMap, artist),
                       Tail(list))

\* the range over artistMap: its values, each once, in any order
MapValues(artistMap) ==
    {s \in [1..Cardinality(DOMAIN artistMap) -> {artistMap[n] : n \in DOMAIN artistMap}] :
        \A i, j \in DOMAIN s : i # j => s[i] # s[j]}

twoFrame == <<aggVars, pipeVars, lockVars, limVars, httpVars, searches>>

\* an aggregator built from two clients, either of which may be nil
TwoInit ==
    /\ AggIdle
    /\ PipeIdle
    /\ LockIdle
    /\ LimIdle
    /\ HttpIdle
    /\ ManyIdle
    /\ spotify \in {NilClient} \cup Answers(SpotifyPool)
    /\ lastfm \in {NilClient} \cup Answers(LastFMPool)
    /\ search = [pc |-> "idle"]

\* SearchArtists up to wg.Wait(): the locals and wg.Add(2)
TwoSearch ==
    /\ search.pc = "idle"
    /\ search' = [pc |-> "wait", wg |-> 2, ran |-> {},
                  spotifyArtists |-> <<>>, lastfmArtists |-> <<>>,
                  spotifyErr |-> Nil, lastfmErr |-> Nil]
    /\ UNCHANGED <<twoFrame, spotify, lastfm>>

\* the first goroutine: the Spotify search unless the client is nil, wg.Done()
SpotifyGo ==
    /\ search.pc = "wait"
    /\ "spotify" \notin search.ran
    /\ search' = [search EXCEPT !.wg = @ - 1,
                                !.ran = @ \cup {"spotify"},
                                !.spotifyArtists = IF spotify # NilClient THEN spotify.artists ELSE @,
                                !.spotifyErr = IF spotify # NilClient THEN spotify.err ELSE @]
    /\ UNCHANGED <<twoFrame, spotify, lastfm>>

\* the second goroutine: the Last.fm search unless the client is nil, wg.Done()
LastFMGo ==
    /\ search.pc = "wait"
    /\ "lastfm" \notin search.ran
    /\ search' = [search EXCEPT !.wg = @ - 1,
                                !.ran = @ \cup {"lastfm"},
                                !.lastfmArtists = IF lastfm # NilClient THEN lastfm.artists ELSE @,
                                !.lastfmErr = IF lastfm # NilClient THEN lastfm.err ELSE @]
    /\ UNCHANGED <<twoFrame, spotify, lastfm>>

\* SearchArtists from the return of wg.Wait(): a nil list and the error when
\* both failed, else the merge by name and the list made from the map
TwoReturn ==
    /\ search.pc = "wait"
    /\ search.wg = 0
    /\ IF AllFailed(search.spotifyErr, search.lastfmErr)
       THEN search' = [pc |-> "done", result |-> <<>>,
                       err |-> "all external APIs failed"]
       ELSE \E result \in MapValues(PutLastFM(PutSpotify(<<>>, search.spotifyArtists),
                                              search.lastfmArtists)) :
                search' = [pc |-> "done", result |-> result, err |-> Nil]
    /\ UNCHANGED <<twoFrame, spotify, lastfm>>

TwoNext ==
    \/ TwoSearch
    \/ SpotifyGo
    \/ LastFMGo
    \/ TwoReturn

SpecTwo == TwoInit /\ [][TwoNext]_vars

\* ------------------------------------------------- the AggregatorHandler alone
\* the longest limit parameter drawn from LimitChars
MaxDigits == 3

\* the characters of a limit parameter
LimitChars == {"0", "1", "2", "7", "-", "+", "a"}

\* the decimal digits, and the value of one
DecimalDigits == {ToString(d) : d \in 0..9}
DigitOf(c) == CHOOSE d \in 0..9 : ToString(d) = c

\* the largest int and the magnitude of the smallest, in decimal (64 bits)
MaxIntDigits ==
    <<"9", "2", "2", "3", "3", "7", "2", "0", "3", "6", "8", "5", "4", "7", "7",
      "5", "8", "0", "7">>
MinIntDigits ==
    <<"9", "2", "2", "3", "3", "7", "2", "0", "3", "6", "8", "5", "4", "7", "7",
      "5", "8", "0", "8">>

\* the limit parameters of the requests: the short ones, and one past the
\* largest int
LimitStrs == SeqsUpTo(LimitChars, MaxDigits) \cup {MinIntDigits}

ErrSyntax == "invalid syntax"
ErrRange == "value out of range"

\* a string of digits without its leading zeros
RECURSIVE StripZeros(_)
StripZeros(ds) ==
    IF ds # <<>> /\ Head(ds) = "0" THEN StripZeros(Tail(ds)) ELSE ds

\* the number a string of digits denotes is greater than the one max denotes
Exceeds(ds, max) ==
    LET s == StripZeros(ds)
    IN  \/ Len(s) > Len(max)
        \/ /\ Len(s) = Len(max)
           /\ \E i \in 1..Len(s) :
                 /\ \A j \in 1..(i - 1) : s[j] = max[j]
                 /\ DigitOf(s[i]) > DigitOf(max[i])

\* the number a string of digits denotes
RECURSIVE Decimal(_)
Decimal(ds) ==
    IF ds = <<>> THEN 0
    ELSE 10 * Decimal(SubSeq(ds, 1, Len(ds) - 1)) + DigitOf(ds[Len(ds)])

\* strconv.Atoi: an optional sign, then digits only and at least one; the
\* value beside ErrRange is the nearest int, which the handler does not read
Atoi(s) ==
    LET neg == s # <<>> /\ Head(s) = "-"
        signed == s # <<>> /\ Head(s) \in {"+", "-"}
        body == IF signed THEN Tail(s) ELSE s
    IN  IF body = <<>> \/ \E i \in 1..Len(body) : body[i] \notin DecimalDigits
        THEN [n |-> 0, err |-> ErrSyntax]
        ELSE IF Exceeds(body, IF neg THEN MinIntDigits ELSE MaxIntDigits)
        THEN [n |-> IF neg THEN "MinInt" ELSE "MaxInt", err |-> ErrRange]
        ELSE [n |-> IF neg THEN 0 - Decimal(body) ELSE Decimal(body), err |-> Nil]

\* the limit a handler passes on: 50, or the parameter when it parses to a
\* positive int, capped at 200
ParseLimit(limitStr) ==
    IF limitStr # <<>>
    THEN LET parsed == Atoi(limitStr)
         IN  IF parsed.err = Nil /\ parsed.n > 0
             THEN IF parsed.n > 200 THEN 200 ELSE parsed.n
             ELSE 50
    ELSE 50

\* what the AggregatorService answers: results without or with an errors
\* list and a nil error, or nil and an error
WithErrors == [EmptyResults EXCEPT !.Errors = <<"spotify: timeout">>]
ServiceAnswers ==
    {[results |-> EmptyResults, err |-> Nil],
     [results |-> OneResult, err |-> Nil],
     [results |-> WithErrors, err |-> Nil],
     [results |-> NoResults, err |-> "aggregation failed"]}

\* the handlers, the parameter each requires, and its message when it fails
Handlers == {"artists", "events", "location"}
Required(handler) ==
    CASE handler = "artists" -> "q"
      [] handler = "events" -> "artist"
      [] handler = "location" -> "city"
Failure(handler) ==
    CASE handler = "artists" -> "failed to search artists"
      [] handler = "events" -> "failed to search events"
      [] handler = "location" -> "failed to search events by location"

StatusOK == 200
StatusBadRequest == 400
StatusInternalServerError == 500

\* writeErrorResponse: the status and an ErrorResponse
writeErrorResponse(status, message, passed) ==
    [status |-> status, body |-> [Error |-> message, Status |-> status],
     passed |-> passed]

\* writeJSONResponse: the status and the encoded data; the results of a
\* search hold no value that json.Marshal refuses
writeJSONResponse(status, data, passed) ==
    [status |-> status, body |-> data, passed |-> passed]

\* a handler from the required parameter to the response; passed is the limit
\* the service was called with, 0 when it was not called
Serve(handler) ==
    /\ response = NoResponse
    /\ response' =
          IF request.required = <<>>
          THEN writeErrorResponse(StatusBadRequest,
                                  "query parameter '" \o Required(handler)
                                    \o "' is required", 0)
          ELSE LET limit_ == ParseLimit(request.limit)
               IN  IF request.answer.err # Nil
                   THEN writeErrorResponse(StatusInternalServerError,
                                           Failure(handler), limit_)
                   ELSE writeJSONResponse(StatusOK, request.answer.results, limit_)
    /\ UNCHANGED <<aggVars, pipeVars, lockVars, limVars, twoVars, request, searches>>

\* AggregatorHandler.SearchArtists, SearchEvents and SearchEventsByLocation
HandleSearchArtists == request.handler = "artists" /\ Serve("artists")
HandleSearchEvents == request.handler = "events" /\ Serve("events")
HandleSearchEventsByLocation == request.handler = "location" /\ Serve("location")

\* a request on one of the routes, and the answer the service has for it
HttpInit ==
    /\ AggIdle
    /\ PipeIdle
    /\ LockIdle
    /\ LimIdle
    /\ TwoIdle
    /\ ManyIdle
    /\ request \in [handler : Handlers, required : {<<>>, <<"t">>},
                    limit : LimitStrs, answer : ServiceAnswers]
    /\ response = NoResponse

HttpNext ==
    \/ HandleSearchArtists
    \/ HandleSearchEvents
    \/ HandleSearchEventsByLocation

SpecHttp == HttpInit /\ [][HttpNext]_vars

\* ---------------------------------------------------------- the EventService
\* SearchArtistEvents and GetArtistEvents of pkg/interfaces/event_service.go,
\* each from its arguments and what its collaborators return to what it
\* returns; request holds the call and the collaborators' answers, response
\* what the call returned and what it did on the way.
ErrInvalidRequest == "invalid request"
ErrExternalAPIFailure == "external API failure"
ErrArtistNotFound == "artist not found"
ErrScan == "failed to scan event"
ErrBandsintown == "bandsintown search failed"

\* time.Now() of the call
ServiceNow == 1

\* a domain.Event as the service reads it
StoredEvent(id, city, cachedUntil) ==
    [ID |-> id, ArtistID |-> <<>>, City |-> city, Country |-> <<"U", "K">>,
     CachedUntil |-> cachedUntil]

\* the rows the repository holds for the artist: cached until after now, until
\* now to the instant, until before now
StoredPool ==
    {StoredEvent("e1", <<"O", "x">>, ServiceNow + 1),
     StoredEvent("e2", <<"U", "k">>, ServiceNow),
     StoredEvent("e3", <<"O", "x">>, ServiceNow - 1)}

\* EventRepository.SearchByArtist: the rows and a nil error, nil and the error
\* of the query, or the rows scanned so far and rows.Err()
RepositoryAnswers ==
    {[events |-> s, err |-> e] : s \in SeqsUpTo(StoredPool, MaxAnswers), e \in {Nil, ErrScan}}

\* BandsintownClient.SearchEvents / GetArtistEvents: the error of
\* rateLimiter.Allow() as it is, any other error, or the events
ClientAnswers ==
    {[events |-> s, err |-> Nil] :
        s \in SeqsUpTo({StoredEvent("bandsintown_1", <<"O", "x">>, ServiceNow + 1)}, 1)}
      \cup {[events |-> <<>>, err |-> e] : e \in {ErrRateLimitExceeded, ErrBandsintown}}

\* event.CachedUntil.After(now)
filterValidCache(events, now) ==
    LET Valid(event) == event.CachedUntil > now
    IN  SelectSeq(events, Valid)

\* strings.Contains
Contains(s, substr) ==
    \E i \in 0..(Len(s) - Len(substr)) : SubSeq(s, i + 1, i + Len(substr)) = substr

\* the events whose "city, region, country", in lower case, contains the
\* location in lower case; all of them for the empty location
filterByLocation(events, location) ==
    LET Near(event) ==
            Contains(ToLower(event.City \o <<",", " ">> \o <<",", " ">> \o event.Country),
                     ToLower(location))
    IN  IF location = <<>> THEN events ELSE SelectSeq(events, Near)

\* what a call returns: the EventSearchResponse or nil, the error, whether the
\* client was called, and the events handed to CreateBatch
Returns(events, err, called, created) ==
    [resp |-> IF err = Nil THEN [Events |-> events, Total |-> Len(events)] ELSE NoResults,
     err |-> err, called |-> called, created |-> created]

\* the handling of a client error that serves the stale events first
ClientFailedStaleFirst(err, cachedEvents) ==
    IF Len(cachedEvents) > 0 THEN Returns(cachedEvents, Nil, TRUE, <<>>)
    ELSE IF err = ErrRateLimitExceeded THEN Returns(<<>>, err, TRUE, <<>>)
    ELSE Returns(<<>>, ErrExternalAPIFailure, TRUE, <<>>)

\* if err != nil after the client's call: the rate-limit error as it is, else
\* the cached events if there are any, else ErrExternalAPIFailure
ClientFailed(err, cachedEvents) ==
    IF err = ErrRateLimitExceeded THEN Returns(<<>>, err, TRUE, <<>>)
    ELSE IF Len(cachedEvents) > 0 THEN Returns(cachedEvents, Nil, TRUE, <<>>)
    ELSE Returns(<<>>, ErrExternalAPIFailure, TRUE, <<>>)

\* EventService.SearchArtistEvents
SearchArtistEvents(req) ==
    LET cachedEvents == req.cached.events
        validEvents == filterValidCache(cachedEvents, ServiceNow)
    IN  IF req.name = <<>> THEN Returns(<<>>, ErrInvalidRequest, FALSE, <<>>)
        ELSE IF req.cached.err = Nil /\ Len(cachedEvents) > 0 /\ Len(validEvents) > 0
        THEN Returns(filterByLocation(validEvents, req.location), Nil, FALSE, <<>>)
        ELSE IF req.client = NilClient THEN Returns(<<>>, Nil, FALSE, <<>>)
        ELSE IF req.client.err # Nil THEN ClientFailed(req.client.err, cachedEvents)
        ELSE Returns(req.client.events, Nil, TRUE, req.client.events)

\* EventService.GetArtistEvents: the artist is looked up before the client is
\* called, and the client's events get the artist's ID
GetArtistEvents(req) ==
    LET cachedEvents == req.cached.events
        validEvents == filterValidCache(cachedEvents, ServiceNow)
        externalEvents == [i \in 1..Len(req.client.events) |->
                              [req.client.events[i] EXCEPT !.ArtistID = req.name]]
    IN  IF req.name = <<>> THEN Returns(<<>>, ErrInvalidRequest, FALSE, <<>>)
        ELSE IF req.cached.err = Nil /\ Len(cachedEvents) > 0 /\ Len(validEvents) > 0
        THEN Returns(validEvents, Nil, FALSE, <<>>)
        ELSE IF req.artistErr # Nil THEN Returns(<<>>, req.artistErr, FALSE, <<>>)
        ELSE IF req.client = NilClient THEN Returns(<<>>, Nil, FALSE, <<>>)
        ELSE IF req.client.err # Nil THEN ClientFailed(req.client.err, cachedEvents)
        ELSE Returns(externalEvents, Nil, TRUE, externalEvents)

eventFrame == <<aggVars, pipeVars, lockVars, limVars, twoVars, request, searches>>

CallSearchArtistEvents ==
    /\ request.handler = "SearchArtistEvents"
    /\ response = NoResponse
    /\ response' = SearchArtistEvents(request)
    /\ UNCHANGED eventFrame

CallGetArtistEvents ==
    /\ request.handler = "GetArtistEvents"
    /\ response = NoResponse
    /\ response' = GetArtistEvents(request)
    /\ UNCHANGED eventFrame

\* a call on a service, and what its repositories and its client answer
EventInit ==
    /\ AggIdle
    /\ PipeIdle
    /\ LockIdle
    /\ LimIdle
    /\ TwoIdle
    /\ ManyIdle
    /\ request \in [handler : {"SearchArtistEvents", "GetArtistEvents"},
                    name : {<<>>, <<"a", "1">>},
                    location : {<<>>, <<"o", "X">>},
                    cached : RepositoryAnswers,
                    artistErr : {Nil, ErrArtistNotFound},
                    client : {NilClient} \cup ClientAnswers]
    /\ response = NoResponse

EventNext == CallSearchArtistEvents \/ CallGetArtistEvents

SpecEvents == EventInit /\ [][EventNext]_vars

\* ------------------------------------------------- BaseScraper.MakeRequest
\* One call of MakeRequest: request holds the scraper's configuration, the
\* context, the position of the call and its locals attempt, resp and lastErr;
\* response holds what the call returned.
DefaultMaxRetries == 3
\* the largest MaxRetries a ScrapingConfig sets
MaxRetry == 2
StatusTooManyRequests == 429

ErrCanceled == "context canceled"
ErrTransport == "connection refused"

\* the status codes a server answers with
Statuses == {StatusOK, 404, StatusTooManyRequests, StatusInternalServerError, 503}

\* NewBaseScraper: the default of MaxRetries
NewBaseScraper(cfg) ==
    [cfg EXCEPT !.MaxRetries = IF cfg.MaxRetries = 0 THEN DefaultMaxRetries
                               ELSE cfg.MaxRetries]

NilResponse == [nil |-> TRUE]

scraperFrame == <<aggVars, pipeVars, lockVars, limVars, twoVars, searches>>

\* return resp, err
ReturnFrom(resp, err) ==
    /\ response' = [resp |-> resp, err |-> err]
    /\ request' = [request EXCEPT !.pc = "returned"]

\* the loop's post statement and condition: the next attempt begins with its
\* backoff, or the loop is over
NextAttempt(req) ==
    [req EXCEPT !.attempt = @ + 1,
                !.pc = IF req.attempt + 1 <= req.config.MaxRetries
                       THEN "backoff" ELSE "after"]

\* rateLimiter.Wait(ctx): if it must wait it returns ctx.Err() once the
\* context is done; then the first attempt, which has no backoff
RateWait ==
    /\ request.handler = "MakeRequest"
    /\ request.pc = "wait"
    /\ IF request.mustWait /\ request.ctxDone
       THEN ReturnFrom(NilResponse, ErrCanceled)
       ELSE /\ request' = [request EXCEPT !.pc = IF 0 <= request.config.MaxRetries
                                                 THEN "do" ELSE "after"]
            /\ UNCHANGED response
    /\ UNCHANGED scraperFrame

\* the select of the backoff: ctx.Done() or time.After(backoff)
Backoff ==
    /\ request.handler = "MakeRequest"
    /\ request.pc = "backoff"
    /\ IF request.ctxDone
       THEN ReturnFrom(NilResponse, ErrCanceled)
       ELSE request' = [request EXCEPT !.pc = "do"] /\ UNCHANGED response
    /\ UNCHANGED scraperFrame

\* resp, lastErr = b.httpClient.Do(req) and what the loop body does with it:
\* an error goes on to the next attempt; a 429 closes the body and waits; a
\* status of 500 or more closes the body and goes on; any other status breaks
Do ==
    /\ request.handler = "MakeRequest"
    /\ request.pc = "do"
    /\ \/ \E e \in (IF request.ctxDone THEN {ErrCanceled} ELSE {ErrTransport}) :
             request' = NextAttempt([request EXCEPT !.resp = NilResponse, !.lastErr = e,
                                                    !.tries = @ + 1])
       \/ /\ ~request.ctxDone
          /\ \E s \in Statuses :
                LET got == [request EXCEPT !.resp = [StatusCode |-> s, closed |-> FALSE],
                                           !.lastErr = Nil, !.tries = @ + 1,
                                           !.usable = @ \/ (s # StatusTooManyRequests /\ s < 500)]
                    shut == [got EXCEPT !.resp.closed = TRUE]
                IN  request' = CASE s = StatusTooManyRequests -> [shut EXCEPT !.pc = "pause"]
                                 [] s >= 500 -> NextAttempt(shut)
                                 [] OTHER -> [got EXCEPT !.pc = "after"]
    /\ UNCHANGED <<response, scraperFrame>>

\* the select after a 429: ctx.Done() or time.After(5 * time.Second), then
\* continue
Pause ==
    /\ request.handler = "MakeRequest"
    /\ request.pc = "pause"
    /\ IF request.ctxDone
       THEN ReturnFrom(NilResponse, ErrCanceled)
       ELSE request' = NextAttempt(request) /\ UNCHANGED response
    /\ UNCHANGED scraperFrame

\* after the loop: the wrapped lastErr, or resp and a nil error
AfterLoop ==
    /\ request.handler = "MakeRequest"
    /\ request.pc = "after"
    /\ IF request.lastErr # Nil
       THEN ReturnFrom(NilResponse, <<"request failed after ",
                                      ToString(request.config.MaxRetries + 1),
                                      " attempts: ", request.lastErr>>)
       ELSE ReturnFrom(request.resp, Nil)
    /\ UNCHANGED scraperFrame

\* the caller's context is cancelled or its deadline passes
CancelCtx ==
    /\ request.handler = "MakeRequest"
    /\ request.pc # "returned"
    /\ ~request.ctxDone
    /\ request' = [request EXCEPT !.ctxDone = TRUE]
    /\ UNCHANGED <<response, scraperFrame>>

\* a call of MakeRequest on a scraper just built
ScraperInit ==
    /\ AggIdle
    /\ PipeIdle
    /\ LockIdle
    /\ LimIdle
    /\ TwoIdle
    /\ ManyIdle
    /\ request \in [handler : {"MakeRequest"},
                    config : {NewBaseScraper([MaxRetries |-> m]) : m \in -1..MaxRetry},
                    mustWait : BOOLEAN, ctxDone : BOOLEAN,
                    pc : {"wait"}, attempt : {0}, resp : {NilResponse},
                    lastErr : {Nil}, tries : {0}, usable : {FALSE}]
    /\ response = NoResponse

ScraperNext == RateWait \/ Backoff \/ Do \/ Pause \/ AfterLoop \/ CancelCtx

SpecScraper == ScraperInit /\ [][ScraperNext]_vars

\* ------------------------------------ concurrent searches on one aggregator
\* Each SearchArtists / SearchEvents / SearchEventsByLocation call makes its
\* own semaphore and its own goroutines; the aggregator's configuration and
\* registries are what the calls share.  A unit's send meets the range loop
\* of its own call, which receives until the channel is closed, so the send
\* and the deferred release are one step here.
NotBegun == [pc |-> "idle", kind |-> "artists", semaphore |-> 0, upc |-> <<>>]

manyFrame == <<aggVars, pipeVars, lockVars, limVars, twoVars, httpVars>>

\* the collaborator calls a search has in flight
InFlight(c) == {u \in DOMAIN searches[c].upc : searches[c].upc[u] = "call"}

\* the collaborator calls in flight over all the searches of the aggregator
TotalInFlight == UNION {{<<c, u>> : u \in InFlight(c)} : c \in DOMAIN searches}

\* the search up to its range loop: make(chan struct{}, MaxConcurrentRequests)
\* and one goroutine per unit, each about to send on the semaphore
Launch(c, k) ==
    /\ searches[c].pc = "idle"
    /\ searches' = [searches EXCEPT ![c] =
          [pc |-> "running", kind |-> k, semaphore |-> 0,
           upc |-> [u \in Units(k, config, musicSources, eventSources, scraperRegistry)
                      |-> "sem"]]]
    /\ UNCHANGED manyFrame

\* a unit that waits for a slot of one semaphore kept by the aggregator
EnterShared(c, u) ==
    /\ searches[c].pc = "running"
    /\ u \in DOMAIN searches[c].upc
    /\ searches[c].upc[u] = "sem"
    /\ Cardinality(TotalInFlight) < config.MaxConcurrentRequests
    /\ searches' = [searches EXCEPT ![c].semaphore = @ + 1, ![c].upc[u] = "call"]
    /\ UNCHANGED manyFrame

\* semaphore <- struct{}{} on the semaphore of the unit's own search, then the
\* collaborator is called
Enter(c, u) ==
    /\ searches[c].pc = "running"
    /\ u \in DOMAIN searches[c].upc
    /\ searches[c].upc[u] = "sem"
    /\ searches[c].semaphore < config.MaxConcurrentRequests
    /\ searches' = [searches EXCEPT ![c].semaphore = @ + 1, ![c].upc[u] = "call"]
    /\ UNCHANGED manyFrame

\* the collaborator returns, the SourceResult is sent, and the deferred
\* <-semaphore and wg.Done() run
Leave(c, u) ==
    /\ searches[c].pc = "running"
    /\ u \in DOMAIN searches[c].upc
    /\ searches[c].upc[u] = "call"
    /\ searches' = [searches EXCEPT ![c].semaphore = @ - 1, ![c].upc[u] = "done"]
    /\ UNCHANGED manyFrame

\* every unit is done: the channel is closed, the range loop ends and the
\* search returns
Join(c) ==
    /\ searches[c].pc = "running"
    /\ \A u \in DOMAIN searches[c].upc : searches[c].upc[u] = "done"
    /\ searches' = [searches EXCEPT ![c].pc = "returned"]
    /\ UNCHANGED manyFrame

\* one aggregator, cache off, and the callers that search on it at once
ManyInit ==
    /\ AggInit({c \in Configs : ~c.CacheEnabled /\ c.DeduplicationEnabled})
    /\ PipeIdle
    /\ LockIdle
    /\ LimIdle
    /\ TwoIdle
    /\ HttpIdle
    /\ searches = [c \in Pair |-> NotBegun]

ManyNext ==
    \/ \E c \in DOMAIN searches, k \in Kinds : Launch(c, k)
    \/ \E c \in DOMAIN searches : \E u \in DOMAIN searches[c].upc : Enter(c, u)
    \/ \E c \in DOMAIN searches : \E u \in DOMAIN searches[c].upc : Leave(c, u)
    \/ \E c \in DOMAIN searches : Join(c)

SpecMany == ManyInit /\ [][ManyNext]_vars

\* a step of a unit, of the closer or of the caller's range loop
Progress ==
    \/ UnitAcquire
    \/ UnitReturn
    \/ UnitSend
    \/ UnitHandoff
    \/ Close
    \/ Receive
    \/ Finish

\* the scheduler runs some goroutine that can take a step, and every
\* collaborator call returns: while a step of the search is possible, one is
\* taken
FairSpec == Spec /\ WF_vars(Progress)

\* ---------------------------------------------------------------- claims
Range(s) == {s[i] : i \in 1..Len(s)}
Count(s, x) == Cardinality({i \in 1..Len(s) : s[i] = x})

\* the units whose collaborator returned without error, and with one
Succeeded == {u \in DOMAIN ures : ures[u].Error = Nil}
Failed == {u \in DOMAIN ures : ures[u].Error # Nil}
InCall == {u \in DOMAIN upc : upc[u] = "call"}

RECURSIVE CountIn(_, _)
\* how often x is among the items the units of U returned
CountIn(U, x) ==
    IF U = {} THEN 0
    ELSE LET u == CHOOSE v \in U : TRUE
         IN  Count(ures[u].Items, x) + CountIn(U \ {u}, x)

Fresh == phase = "done" /\ ~hit

\* C1: whatever subset of the sources fails, a search returns a nil error, its
\* merged list (before dedup and truncation) holds exactly the items of the
\* sources that returned without error, and errors holds exactly one
\* "<source>: <cause>" entry per failing source.
C1_PartialFailure ==
    Fresh =>
        /\ retErr = Nil
        /\ DOMAIN ures = DOMAIN upc
        /\ \A x \in Range(merged) \cup UNION {Range(ures[u].Items) : u \in Succeeded} :
              Count(merged, x) = CountIn(Succeeded, x)
        /\ Len(errors) = Cardinality(Failed)
        /\ \A u \in Failed :
              Count(errors, FormatError(u[2], ures[u].Error))
                = Cardinality({v \in Failed : v[2] = u[2] /\ ures[v].Error = ures[u].Error})
        /\ results.Errors = errors

\* three units, exactly one of which failed
C1_Witness ==
    /\ Fresh
    /\ Cardinality(Succeeded) = 2
    /\ Cardinality(Failed) = 1
    /\ merged # <<>>

\* C2: with no source registered, or with every source failing, a search
\* returns an empty list, empty sourceStats, one errors entry per source (none
\* with no source) and a nil error.
C2_NoneOrAllFailing ==
    (Fresh /\ Succeeded = {}) =>
        /\ retErr = Nil
        /\ results.Artists = <<>>
        /\ results.Events = <<>>
        /\ results.SourceStats = <<>>
        /\ results.TotalResults = 0
        /\ Len(results.Errors) = Cardinality(DOMAIN upc)

\* every one of at least two registered sources failed
C2_Witness ==
    /\ Fresh
    /\ Succeeded = {}
    /\ Cardinality(Failed) >= 2

\* C3: at most MaxConcurrentRequests units are inside a collaborator call.
C3_ConcurrencyBound == Cardinality(InCall) <= config.MaxConcurrentRequests

\* more units than slots: the slots are all taken and a unit waits
C3_Witness ==
    /\ Cardinality(DOMAIN upc) > config.MaxConcurrentRequests
    /\ Cardinality(InCall) = config.MaxConcurrentRequests
    /\ config.MaxConcurrentRequests >= 2
    /\ \E u \in DOMAIN upc : upc[u] = "sem"

\* C4: when every collaborator call returns, every search returns: the closer
\* closes the channel only after all units have finished, the range loop takes
\* exactly one SourceResult per launched unit, and the search does not stay in
\* its range loop for ever, also when the channel's buffer is smaller than the
\* number of units.
C4_SearchReturns ==
    /\ [](chanClosed => \A u \in DOMAIN upc : upc[u] = "done")
    /\ [](Fresh => received = Cardinality(DOMAIN upc))
    /\ [](received + Len(resultsChan)
            = Cardinality({u \in DOMAIN upc : upc[u] = "done"}))
    /\ <>[](phase # "drain")

\* a SearchEvents that returned with more units than buffer slots, one slot only
C4_Witness ==
    /\ Fresh
    /\ kind = "events"
    /\ chanCap < Cardinality(DOMAIN upc)
    /\ config.MaxConcurrentRequests = 1
    /\ received = Cardinality(DOMAIN upc)

\* C5: once the context is done, every unit still inside its collaborator call
\* or still waiting for a semaphore slot is recorded as an error entry.
C5_CancelledUnitsAreErrors ==
    [][\A u \in DOMAIN upc \cap DOMAIN upc' :
          (cancelled /\ upc[u] = "call" /\ upc'[u] = "send") => ures'[u].Error # Nil]_vars

KeysOf(k, list) == {KeyOf(k, list[i]) : i \in 1..Len(list)}

\* C6: the Deduplicator returns a list in which no two records have equal
\* normalized keys and in which every key of the input is present, so exactly
\* once; two events of different sources with the same artist, venue name and
\* calendar date come out as one event.
C6_DedupCorrect ==
    pipeStep = "dedup" =>
        /\ \A i, j \in 1..Len(pipeOut) :
              KeyOf(pipeKind, pipeOut[i]) = KeyOf(pipeKind, pipeOut[j]) => i = j
        /\ KeysOf(pipeKind, pipeOut) = KeysOf(pipeKind, pipeIn)
        /\ Range(pipeOut) \subseteq Range(pipeIn)

\* two events of different sources, written differently, on one calendar day
C6_Witness ==
    /\ pipeStep = "dedup"
    /\ pipeKind = "events"
    /\ Len(pipeIn) = 2
    /\ pipeIn[1].Src # pipeIn[2].Src
    /\ pipeIn[1].DateTime # pipeIn[2].DateTime
    /\ Len(pipeOut) = 1

\* C9: the artists a search returns are in non-increasing order of popularity.
C9_ArtistsSorted ==
    (pipeStep = "search" /\ pipeKind = "artists") =>
        \A i \in 1..(Len(pipeOut) - 1) :
            pipeOut[i].Popularity >= pipeOut[i + 1].Popularity

\* a returned list that starts above where it ends, from an input that did not
C9_Witness ==
    /\ pipeStep = "search"
    /\ pipeKind = "artists"
    /\ Len(pipeOut) = 3
    /\ pipeOut[1].Popularity > pipeOut[3].Popularity
    /\ pipeIn[1].Popularity < pipeIn[3].Popularity

\* C10: in the events a search returns, no event at or before now precedes an
\* event after now, and within each of the two groups start times do not
\* decrease.
C10_EventsSorted ==
    (pipeStep = "search" /\ pipeKind = "events") =>
        \A i, j \in 1..Len(pipeOut) :
            i < j =>
                /\ ~(pipeOut[i].DateTime <= pipeArgs.Now /\ pipeOut[j].DateTime > pipeArgs.Now)
                /\ ((pipeOut[i].DateTime > pipeArgs.Now) = (pipeOut[j].DateTime > pipeArgs.Now)
                      => pipeOut[i].DateTime <= pipeOut[j].DateTime)

\* past and upcoming events returned together, the input having led with a past one
C10_Witness ==
    /\ pipeStep = "search"
    /\ pipeKind = "events"
    /\ Len(pipeOut) = 3
    /\ pipeOut[1].DateTime > pipeArgs.Now
    /\ pipeOut[3].DateTime <= pipeArgs.Now
    /\ pipeIn[1].DateTime <= pipeArgs.Now
    /\ pipeOut[3].DateTime < pipeOut[1].DateTime

\* C7: when two sources return artists with equal normalized keys, Radiohead
\* with popularity 90 and "radiohead." with popularity 70, the record a search
\* keeps is the popularity-90 one under every completion order.
C7_DeterministicWinner ==
    (/\ Fresh
     /\ kind = "artists"
     /\ config.DeduplicationEnabled
     /\ {<<"source", "spotify">>, <<"source", "lastfm">>} \subseteq Succeeded) =>
        \A i \in 1..Len(results.Artists) :
            normalizeArtistName(results.Artists[i].Name) = normalizeArtistName(Radiohead)
                => results.Artists[i].Popularity = 90

\* C8: for the same per-source results (and the same limit and sort time) a
\* search returns the same list whatever order the sources complete in.
C8_SameListEveryOrder ==
    (/\ Fresh
     /\ prev # NoPrev
     /\ prev.Kind = kind
     /\ prev.Limit = limit
     /\ prev.Now = sortNow
     /\ prev.Sources = ures) =>
        ItemsOf(kind, results) = prev.Items

\* C11: every AggregatedResults a search returns, built by the search or taken
\* from the cache, has totalResults equal to the length of its artists list
\* (artist search) or events list (event search), and that length is at most
\* the limit after defaulting.
C11_TotalResults ==
    phase = "done" =>
        /\ results.TotalResults = Len(ItemsOf(kind, results))
        /\ Len(ItemsOf(kind, results)) <= limit

\* a result from the cache whose search had cut its source's items to one
C11_Witness ==
    /\ phase = "done"
    /\ hit
    /\ limit = 1
    /\ results.TotalResults = 1
    /\ \E n \in DOMAIN results.SourceStats : results.SourceStats[n] > 1

\* C12: after a search sourceStats has an entry for a name if and only if the
\* source of that name returned without error, the entry is the number of items
\* that source returned, and a source with an errors entry has no sourceStats
\* entry; also when a scraper's GetName() is the name an event source is
\* registered under.
C12_SourceStats ==
    Fresh =>
        /\ DOMAIN sourceStats = {u[2] : u \in Succeeded}
        /\ \A u \in Succeeded : sourceStats[u[2]] = Len(ures[u].Items)
        /\ \A u \in Failed : u[2] \notin DOMAIN sourceStats
        /\ results.SourceStats = sourceStats

\* the merged list of the search after the dedup step
Deduped ==
    IF ~config.DeduplicationEnabled THEN merged
    ELSE IF kind = "artists" THEN DeduplicateArtists(merged)
    ELSE DeduplicateEvents(merged)

\* the two limits are the same request: each is 50 or below 1
SameLimit(l1, l2) ==
    /\ (l1 <= 0 \/ l1 = DefaultLimit)
    /\ (l2 <= 0 \/ l2 = DefaultLimit)

\* C13: a search called with limit <= 0 behaves like the same search called
\* with limit 50: it cuts its list to 50 items, it writes its result under the
\* cache key of limit 50 and under no key of its own, and a call with either
\* limit is answered from the entry a call with the other one wrote.
C13_DefaultLimit ==
    /\ []((phase # "idle" /\ argLimit <= 0) =>
            /\ limit = DefaultLimit
            /\ (Fresh => Len(ItemsOf(kind, results))
                           = (IF Len(Deduped) > 50 THEN 50 ELSE Len(Deduped)))
            /\ (phase = "done" =>
                  LET key == CacheKey(kind, query, country, 50)
                  IN  /\ key \in DOMAIN CacheOf(kind)
                      /\ CacheOf(kind)[key].Results = results))
    /\ [](\A k \in Kinds, q \in Queries, l \in DefaultLimits :
            l <= 0 => CacheKey(k, q, <<>>, l) \notin DOMAIN CacheOf(k))
    /\ [][(/\ phase = "done"
            /\ calls' = calls + 1
            /\ kind' = kind
            /\ query' = query
            /\ SameLimit(argLimit, argLimit')
            /\ (argLimit <= 0 \/ argLimit' <= 0)
            /\ clock <= CacheOf(kind)[CacheKey(kind, query, country, 50)].ExpiresAt)
              => (hit' /\ phase' = "done" /\ results' = results)]_vars

\* a search with limit 50 answered from the entry that a search with a
\* negative limit wrote after cutting 51 items to 50
C13_Witness ==
    /\ phase = "done"
    /\ hit
    /\ argLimit = DefaultLimit
    /\ prev # NoPrev
    /\ prev.Kind = kind
    /\ prev.Arg < 0
    /\ Len(prev.Items) = 50
    /\ prev.Items = ItemsOf(kind, results)
    /\ \E n \in DOMAIN results.SourceStats : results.SourceStats[n] = 51

\* C14: with the cache enabled, a search called again with the query and limit
\* of the search that has just run its sources, no later than the TTL after
\* that search stored its result, returns the same AggregatedResults from the
\* cache and launches no unit, so no source is invoked (stated for SearchArtists
\* and for the two event searches alike).
C14_CacheIdempotence ==
    [][(/\ phase = "done"
        /\ ~hit
        /\ config.CacheEnabled
        /\ calls' = calls + 1
        /\ kind' = kind
        /\ query' = query
        /\ argLimit' = argLimit
        /\ clock <= sortNow + CacheTTL)
          => (/\ hit'
              /\ phase' = "done"
              /\ results' = results
              /\ retErr' = Nil
              /\ upc' = <<>>
              /\ wg' = 0)]_vars

\* a SearchArtists answered from the cache at the last tick of the TTL with the
\* two or more artists of the search before it
C14_Witness ==
    /\ phase = "done"
    /\ hit
    /\ kind = "artists"
    /\ prev # NoPrev
    /\ prev.Kind = "artists"
    /\ clock = prev.Now + CacheTTL
    /\ Len(prev.Items) >= 2
    /\ results.Artists = prev.Items

\* C15: the searchTime in the result of a search answered from the cache is
\* the elapsed time of that call (none, the call returns at once), not the
\* elapsed time of the search that stored the entry.
C15_HitSearchTime ==
    (phase = "done" /\ hit) => results.SearchTime = sortNow - startTime

\* the callers inside a Get and inside a Set
Getting == {t \in DOMAIN ops : ops[t].op = "get"}
Setting == {t \in DOMAIN ops : ops[t].op = "set"}

\* C16: a Get returns "no entry" exactly when its key is absent or the time of
\* the Get is after the entry's ExpiresAt; at ExpiresAt itself the entry's
\* results are still returned; and no step of a Get changes either cache map.
C16_GetLazyExpiry ==
    /\ [](\A t \in Getting :
            LET c == CacheOf(ops[t].space)
                key == ops[t].key
            IN  /\ (ops[t].ret = NoResults)
                      <=> (key \notin DOMAIN c \/ ops[t].at > c[key].ExpiresAt)
                /\ (ops[t].ret # NoResults => ops[t].ret = c[key].Results))
    /\ [][(\E t \in DOMAIN ops :
              /\ ops'[t] # ops[t]
              /\ (ops[t].op = "get" \/ ops'[t].op = "get"))
            => UNCHANGED <<artistCache, eventCache>>]_vars

\* a Get at the very tick its entry expires at, which returns the results
C16_Witness ==
    \E t \in Getting :
        /\ ops[t].ret # NoResults
        /\ ops[t].at = CacheOf(ops[t].space)[ops[t].key].ExpiresAt

\* C17: a Set stores its results under its key with ExpiresAt = now + TTL
\* whatever was stored there, live or expired, and every Get on that key made
\* from the time of the Set to TTL after it returns the results of that Set.
C17_SetOverwrites ==
    /\ [][\A t \in DOMAIN ops :
            (ops[t] = Idle /\ ops'[t].op = "set") =>
                LET c == IF ops'[t].space = "artists" THEN artistCache'
                         ELSE eventCache'
                IN  /\ ops'[t].key \in DOMAIN c
                    /\ c[ops'[t].key] = [Results |-> ops'[t].res,
                                         ExpiresAt |-> clock + CacheTTL]]_vars
    /\ [](\A t \in Getting :
            LET ls == lastSet[ops[t].space]
                key == ops[t].key
            IN  (/\ key \in DOMAIN ls
                 /\ ls[key].At <= ops[t].at
                 /\ ops[t].at <= ls[key].At + CacheTTL)
                  => ops[t].ret = ls[key].Results)

\* a Set that has just replaced a live entry holding other results
C17_Witness ==
    \E t \in Setting :
        /\ ops[t].old # NoResults
        /\ ops[t].old.Results # ops[t].res
        /\ clock <= ops[t].old.ExpiresAt
        /\ CacheOf(ops[t].space)[ops[t].key].Results = ops[t].res

\* C18: no step removes a key from either cache map, and a stored entry
\* changes only in a Set on its own key, however long ago it expired.
C18_NeverEvicted ==
    [][/\ DOMAIN artistCache \subseteq DOMAIN artistCache'
       /\ DOMAIN eventCache \subseteq DOMAIN eventCache'
       /\ \A key \in DOMAIN artistCache :
             artistCache'[key] # artistCache[key] =>
                \E t \in DOMAIN ops :
                    /\ ops[t] = Idle
                    /\ ops'[t].op = "set"
                    /\ ops'[t].space = "artists"
                    /\ ops'[t].key = key
       /\ \A key \in DOMAIN eventCache :
             eventCache'[key] # eventCache[key] =>
                \E t \in DOMAIN ops :
                    /\ ops[t] = Idle
                    /\ ops'[t].op = "set"
                    /\ ops'[t].space = "events"
                    /\ ops'[t].key = key]_vars

\* a Set on one event key while the entry of the other one, expired, is still
\* stored
C18_Witness ==
    \E t \in Setting :
        /\ ops[t].space = "events"
        /\ \E key \in DOMAIN eventCache :
              /\ key # ops[t].key
              /\ clock > eventCache[key].ExpiresAt

\* C19: a SetArtists leaves what GetEvents returns unchanged for every key, and
\* a SetEvents leaves what GetArtists returns unchanged for every key, also
\* for the key that is the same string in both keyspaces.
C19_IndependentKeyspaces ==
    [][\A t \in DOMAIN ops :
          (ops[t] = Idle /\ ops'[t].op = "set") =>
              IF ops'[t].space = "artists"
              THEN \A key \in CacheKeys :
                      CacheGet(eventCache', key, clock') = CacheGet(eventCache, key, clock)
              ELSE \A key \in CacheKeys :
                      CacheGet(artistCache', key, clock')
                        = CacheGet(artistCache, key, clock)]_vars

\* a SetEvents under the key string that holds a live entry with other
\* results in the artist cache
C19_Witness ==
    \E t \in Setting :
        /\ ops[t].space = "events"
        /\ ops[t].key \in DOMAIN artistCache
        /\ clock <= artistCache[ops[t].key].ExpiresAt
        /\ artistCache[ops[t].key].Results # ops[t].res
        /\ CacheGet(artistCache, ops[t].key, clock) # CacheGet(eventCache, ops[t].key, clock)

\* C20: at most one caller is inside a Set, and then no caller is inside a Get
\* or another Set, on either keyspace; the mutex counts the callers inside a
\* Get, of which there may be several at once.
C20_ReadersShareWritersExclude ==
    /\ Cardinality(Setting) <= 1
    /\ Setting # {} => Getting = {}
    /\ mutex.readers = Cardinality(Getting)
    /\ mutex.writer = (Setting # {})

\* two callers inside a Get at once, one on each keyspace
C20_Witness ==
    \E t1, t2 \in Getting :
        /\ t1 # t2
        /\ ops[t1].space = "artists"
        /\ ops[t2].space = "events"

\* the Allow() calls of the history that returned nil
Allowed == {i \in 1..Len(log) : log[i].err = Nil}

\* the timestamps of a log that a call reading now finds less than a window old
Recent(r, now) ==
    LET Young(t) == now - t < r.windowSize
    IN  SelectSeq(r.requests, Young)

\* C21: on the fixed-window limiter built at time 0 with limit L, of the calls
\* made while no more than 24 hours have passed since then exactly the first
\* L succeed and the later ones return ErrRateLimitExceeded; a call made more
\* than 24 hours after windowStart succeeds and leaves requests at 1 and
\* windowStart at the time of that call.
C21_FixedWindow ==
    limiter.type = "fixed" =>
        \A i \in 1..Len(log) :
            /\ log[i].now <= 24 * Hour =>
                  (log[i].err = Nil <=> i <= limiter.dailyLimit)
            /\ log[i].now <= 24 * Hour /\ i > limiter.dailyLimit =>
                  log[i].err = ErrRateLimitExceeded
            /\ log[i].now - log[i].before.windowStart > 24 * Hour =>
                  /\ log[i].err = Nil
                  /\ log[i].after.requests = 1
                  /\ log[i].after.windowStart = log[i].now

\* with limit 1: a call allowed, a call rejected a day after windowStart to the
\* half second, and a call allowed a half second later that opened a new window
C21_Witness ==
    /\ limiter.type = "fixed"
    /\ Len(log) = 3
    /\ log[1].err = Nil
    /\ log[2].err = ErrRateLimitExceeded
    /\ log[2].now = 24 * Hour
    /\ log[3].err = Nil
    /\ log[3].now - log[3].before.windowStart > 24 * Hour
    /\ limiter.requests = 1

AllowedInWindow(ws) == {i \in Allowed : log[i].after.windowStart = ws}

\* the calls allowed in the window of the sliding limiter that ends at call i
AllowedBefore(i) ==
    {j \in Allowed : /\ log[j].now <= log[i].now
                     /\ log[i].now - log[j].now < limiter.windowSize}

\* C23: when two goroutines share a fixed-window or a sliding-window limiter
\* and call Allow() concurrently, under every interleaving the calls allowed
\* within one window are no more than the limit, as they are when every call
\* runs under the limiter's mutex.
C23_WithinLimit ==
    /\ limiter.type = "fixed" =>
          \A i \in Allowed :
              Cardinality(AllowedInWindow(log[i].after.windowStart)) <= limiter.dailyLimit
    /\ limiter.type = "sliding" =>
          \A i \in Allowed : Cardinality(AllowedBefore(i)) <= limiter.limit

\* C24: on the throttle called by one goroutine every Allow() returns nil and
\* leaves lastRequest at the time of its return, two consecutive returns are
\* an interval or more apart, and the first call on a throttle just built does
\* not sleep.
C24_Throttle ==
    limiter.type = "throttle" =>
        /\ \A i \in 1..Len(log) :
              /\ log[i].err = Nil
              /\ log[i].after.lastRequest = log[i].at
        /\ \A i \in 1..(Len(log) - 1) :
              log[i + 1].at - log[i].at >= limiter.interval
        /\ log # <<>> =>
              /\ log[1].before.lastRequest = ZeroTime
              /\ ~log[1].slept
        /\ limiter.lastRequest = IF log = <<>> THEN ZeroTime ELSE log[Len(log)].at

\* a second call that came a half second after the first returned, slept, and
\* returned exactly one interval after it
C24_Witness ==
    /\ limiter.type = "throttle"
    /\ Len(log) >= 2
    /\ ~log[1].slept
    /\ log[2].now - log[1].at = 1
    /\ log[2].slept
    /\ log[2].at - log[1].at = limiter.interval

\* C25: when two goroutines share the throttle, two returns of Allow() can be
\* less than an interval apart; they then belong to different goroutines, and
\* the later call read the clock before the earlier one stamped lastRequest.
C25_ThrottleShared ==
    limiter.type = "throttle" =>
        \A i, j \in 1..Len(log) :
            i < j /\ log[j].at - log[i].at < limiter.interval =>
                /\ log[i].g # log[j].g
                /\ log[j].now <= log[i].at

\* both goroutines returned from Allow() at the same instant, neither having
\* slept
C25_Witness ==
    /\ limiter.type = "throttle"
    /\ \E i, j \in 1..Len(log) :
          /\ i < j
          /\ log[i].g # log[j].g
          /\ log[j].at - log[i].at < limiter.interval
          /\ ~log[i].slept
          /\ ~log[j].slept

\* the clients of the two-source aggregator that are there, and those whose
\* search failed
Clients == {c \in {spotify, lastfm} : c # NilClient}
NamesOf(list) == {list[i].Name : i \in 1..Len(list)}

\* C26: the two-source SearchArtists returns an error, and no list, exactly
\* when neither client is nil and both searches returned an error; otherwise
\* it returns a nil error and a list that holds each name the clients
\* answered with once, and when only one client answered, because the other
\* failed or is nil, every artist of the list is one that client returned.
C26_HardErrorIffBothFail ==
    search.pc = "done" =>
        /\ (search.err # Nil) <=>
              /\ spotify # NilClient /\ spotify.err # Nil
              /\ lastfm # NilClient /\ lastfm.err # Nil
        /\ search.err # Nil => search.result = <<>>
        /\ search.err = Nil =>
              /\ NamesOf(search.result) = UNION {NamesOf(c.artists) : c \in Clients}
              /\ \A i, j \in 1..Len(search.result) :
                    i # j => search.result[i].Name # search.result[j].Name
              /\ \A c \in Clients :
                    (\A o \in Clients \ {c} : o.err # Nil) =>
                        \A i \in 1..Len(search.result) :
                            \E k \in 1..Len(c.artists) : search.result[i] = c.artists[k]

\* the Spotify search failed and the search returned the artists of Last.fm
\* with a nil error
C26_Witness ==
    /\ search.pc = "done"
    /\ spotify # NilClient
    /\ spotify.err # Nil
    /\ lastfm # NilClient
    /\ lastfm.err = Nil
    /\ search.err = Nil
    /\ Len(search.result) = 2

\* a limit parameter that is a decimal numeral, and one that denotes a number
\* greater than zero
Numeral(s) ==
    LET body == IF s # <<>> /\ Head(s) \in {"+", "-"} THEN Tail(s) ELSE s
    IN  body # <<>> /\ \A i \in 1..Len(body) : body[i] \in DecimalDigits
Positive(s) ==
    /\ Numeral(s)
    /\ Head(s) # "-"
    /\ StripZeros(IF Head(s) = "+" THEN Tail(s) ELSE s) # <<>>

\* the number a positive numeral denotes, or 200 when it denotes more
UpTo200(s) ==
    LET ds == StripZeros(IF Head(s) = "+" THEN Tail(s) ELSE s)
    IN  IF Len(ds) > 3 THEN 200
        ELSE IF Decimal(ds) > 200 THEN 200 ELSE Decimal(ds)

\* C27: a request that names its query is answered with status 200 and the
\* results of the service when the service returned a nil error, whether or
\* not the results list errors, and with status 500 exactly when the service
\* returned an error; the limit the service is called with is 50 when the
\* limit parameter is missing, is not a numeral, or denotes zero or a negative
\* number, and otherwise the number it denotes or 200, whichever is less.
C27_HandlerStatusAndLimit ==
    response # NoResponse /\ request.required # <<>> =>
        /\ request.answer.err = Nil =>
              /\ response.status = StatusOK
              /\ response.body = request.answer.results
        /\ response.status = StatusInternalServerError <=> request.answer.err # Nil
        /\ response.passed = IF Positive(request.limit)
                             THEN UpTo200(request.limit)
                             ELSE 50

\* the places of a list whose key no earlier place has
FirstPlaces(k, list) ==
    {i \in 1..Len(list) :
        \A j \in 1..(i - 1) : KeyOf(k, list[j]) # KeyOf(k, list[i])}

\* C28: the list DeduplicateArtists or DeduplicateEvents returns is no longer
\* than its input and holds, in the order of the input, exactly the records at
\* the places where a normalized key occurs for the first time; deduplicating
\* that list again returns it unchanged.
C28_FirstOccurrences ==
    pipeStep = "dedup" =>
        LET first == FirstPlaces(pipeKind, pipeIn)
        IN  /\ Len(pipeOut) <= Len(pipeIn)
            /\ Len(pipeOut) = Cardinality(first)
            /\ \A i \in first :
                  pipeOut[Cardinality({j \in first : j <= i})] = pipeIn[i]
            /\ (IF pipeKind = "artists" THEN DeduplicateArtists(pipeOut)
                ELSE DeduplicateEvents(pipeOut)) = pipeOut

\* three records of which the third, a different record, has the key of the
\* first: the first two come out
C28_Witness ==
    /\ pipeStep = "dedup"
    /\ Len(pipeIn) = 3
    /\ KeyOf(pipeKind, pipeIn[1]) = KeyOf(pipeKind, pipeIn[3])
    /\ pipeIn[1] # pipeIn[3]
    /\ KeyOf(pipeKind, pipeIn[1]) # KeyOf(pipeKind, pipeIn[2])
    /\ pipeOut = <<pipeIn[1], pipeIn[2]>>

\* the list the sort and the truncation of the pipeline run on
PipeDeduped ==
    IF ~pipeArgs.Dedup THEN pipeIn
    ELSE IF pipeKind = "artists" THEN DeduplicateArtists(pipeIn)
    ELSE DeduplicateEvents(pipeIn)

\* the records of which the pipeline returned fewer than it was given
PipeDropped == {x \in Range(PipeDeduped) : Count(PipeDeduped, x) > Count(pipeOut, x)}

\* C29: when more records than the limit remain after deduplication, exactly
\* limit are returned, each of them one of those that remained, and no dropped
\* record sorts before a returned one: a dropped artist is no more popular
\* than any returned artist, and a dropped event is not ahead of any returned
\* event in the order that puts upcoming events first and earlier start times
\* first; when no more than the limit remain, all are returned.
C29_TruncationKeepsHead ==
    pipeStep = "search" =>
        /\ Len(pipeOut) = IF Len(PipeDeduped) > pipeArgs.Limit
                          THEN pipeArgs.Limit ELSE Len(PipeDeduped)
        /\ \A x \in Range(pipeOut) : Count(pipeOut, x) <= Count(PipeDeduped, x)
        /\ \A x \in PipeDropped, y \in Range(pipeOut) :
              IF pipeKind = "artists"
              THEN x.Popularity <= y.Popularity
              ELSE /\ ~(x.DateTime > pipeArgs.Now /\ y.DateTime <= pipeArgs.Now)
                   /\ ((x.DateTime > pipeArgs.Now) = (y.DateTime > pipeArgs.Now)
                         => x.DateTime >= y.DateTime)

\* three artists of three popularities and a limit of 2: the least popular,
\* which was not the last of the input, is dropped
C29_Witness ==
    /\ pipeStep = "search"
    /\ pipeKind = "artists"
    /\ pipeArgs.Limit = 2
    /\ Len(PipeDeduped) = 3
    /\ Len(pipeOut) = 2
    /\ PipeDropped # {}
    /\ \A x \in PipeDropped : x # pipeIn[3] /\ x.Popularity < pipeOut[2].Popularity

RECURSIVE CountItems(_)
\* how many items the units of U returned
CountItems(U) ==
    IF U = {} THEN 0
    ELSE LET u == CHOOSE v \in U : TRUE
         IN  Len(ures[u].Items) + CountItems(U \ {u})

\* C30: a search that has run its deduplication, sort, truncation and cache
\* write, or has returned, has a closed and empty result channel and has
\* received one SourceResult from each of its units; none of its units is
\* waiting, inside a collaborator call or sending, no semaphore slot is held,
\* and the list it returns was made from the merged list as it now is.
C30_PipelineAfterDrain ==
    Fresh =>
        /\ chanClosed
        /\ resultsChan = <<>>
        /\ received = Cardinality(DOMAIN upc)
        /\ \A u \in DOMAIN upc : upc[u] = "done"
        /\ wg = 0
        /\ semaphore = 0
        /\ Len(merged) = CountItems(Succeeded)
        /\ ItemsOf(kind, results)
             \in Pipeline(kind, merged, config.DeduplicationEnabled, limit, sortNow)

\* a search of two units that ran one after the other through the one
\* semaphore slot, and whose items were all merged
C30_Witness ==
    /\ Fresh
    /\ Cardinality(DOMAIN upc) = 2
    /\ config.MaxConcurrentRequests = 1
    /\ Succeeded = DOMAIN upc
    /\ Len(merged) >= 2

\* ------------------------------------------------------------------- C31
\* the names a search called: the units that left the semaphore
CalledUnits == {u \in DOMAIN upc : upc[u] # "sem"}
\* the SourceNames the errors list names
ErrorNames == {errors[i][1] : i \in 1..Len(errors)}

\* C31: a search that runs its sources launches exactly one unit per
\* registered source of its kind (music sources for SearchArtists, event
\* sources for the two event searches) and, for the event searches only, one
\* unit per registered scraper exactly when IncludeScrapers is true;
\* SearchArtists never calls a scraper, and with IncludeScrapers false no
\* scraper is called and none is named in sourceStats, in errors or in
\* GetSourceStats
C31_UnitsPerSource ==
    LET sources == IF kind = "artists" THEN musicSources ELSE eventSources
        launched == DOMAIN upc
        stats == GetSourceStats(config, musicSources, eventSources, scraperRegistry)
    IN  /\ (phase # "idle" /\ ~hit) =>
              /\ {u[2] : u \in {v \in launched : v[1] = "source"}} = sources
              /\ Cardinality({v \in launched : v[1] = "source"}) = Cardinality(sources)
              /\ \A n \in scraperRegistry :
                    (<<"scraper", n>> \in launched)
                        <=> (kind # "artists" /\ config.IncludeScrapers)
              /\ \A v \in launched : v[1] = "scraper" => v[2] \in scraperRegistry
              /\ (kind = "artists" \/ ~config.IncludeScrapers) =>
                    /\ \A u \in CalledUnits : u[1] # "scraper"
                    /\ DOMAIN sourceStats \cap scraperRegistry = {}
                    /\ ErrorNames \cap scraperRegistry = {}
                    /\ results # NoResults =>
                          /\ DOMAIN results.SourceStats \cap scraperRegistry = {}
                          /\ \A i \in 1..Len(results.Errors) :
                                results.Errors[i][1] \notin scraperRegistry
        /\ ~config.IncludeScrapers => DOMAIN stats \cap scraperRegistry = {}
        /\ config.IncludeScrapers => scraperRegistry \subseteq DOMAIN stats

\* an event search with scrapers included finished: the scraper was called
\* beside every event source and is counted in sourceStats
C31_Witness ==
    /\ phase = "done" /\ ~hit
    /\ kind = "events"
    /\ config.IncludeScrapers
    /\ eventSources # {}
    /\ \A n \in eventSources : <<"source", n>> \in DOMAIN ures
    /\ \E n \in scraperRegistry :
          /\ <<"scraper", n>> \in DOMAIN ures
          /\ n \in DOMAIN results.SourceStats

\* ------------------------------------------------------------------- C32
\* the goroutines whose fixed-window Allow() ran its body in this step
Entering == {g \in DOMAIN gor : gor[g].pc = "idle" /\ gor'[g].pc = "unlock"}

\* C32: on the fixed-window limiter, shared by two goroutines or not, requests
\* stays within 0..dailyLimit in every state; an Allow() that returns
\* ErrRateLimitExceeded leaves requests and windowStart as they were; and
\* windowStart changes only in an Allow() that reads a time more than 24 hours
\* after it, which sets it to that time, so that an Allow() made 24 hours
\* after windowStart to the instant still counts against the old window.
C32_FixedWindowInvariant ==
    /\ [](limiter.type = "fixed" =>
             /\ limiter.requests >= 0
             /\ limiter.requests <= limiter.dailyLimit)
    /\ [][limiter.type = "fixed" =>
             /\ limiter' # limiter => Entering # {}
             /\ \A g \in Entering :
                   /\ gor'[g].err # Nil => limiter' = limiter
                   /\ gor'[g].err = Nil =>
                         limiter'.requests \in {limiter.requests + 1, 1}
                   /\ clock' - limiter.windowStart <= 24 * Hour =>
                         /\ limiter'.windowStart = limiter.windowStart
                         /\ limiter'.requests >= limiter.requests
             /\ limiter'.windowStart # limiter.windowStart =>
                   /\ clock' - limiter.windowStart > 24 * Hour
                   /\ limiter'.windowStart = clock'
                   /\ limiter'.requests = 1]_vars

\* two goroutines on one limiter: one was rejected 24 hours after windowStart
\* to the half second and left the limiter as it was, the other then opened a
\* new window
C32_Witness ==
    /\ limiter.type = "fixed"
    /\ \E i, j \in 1..Len(log) :
          /\ i < j
          /\ log[i].g # log[j].g
          /\ log[i].err = ErrRateLimitExceeded
          /\ log[i].now - log[i].before.windowStart = 24 * Hour
          /\ log[i].after = log[i].before
          /\ log[i].before.requests = limiter.dailyLimit
          /\ log[j].err = Nil
          /\ log[j].after.windowStart = log[j].now
          /\ log[j].after.windowStart > log[j].before.windowStart

\* ------------------------------------------------------------------- C33
\* C33: the bound on concurrency is kept per search call.  Each call holds in
\* its own semaphore exactly its own collaborator calls in flight, never more
\* than MaxConcurrentRequests, and a waiting unit can enter exactly when its
\* own call has a free slot, whatever the other calls have in flight; so the
\* calls in flight over k concurrent searches are bounded by
\* k x MaxConcurrentRequests only.
C33_BoundPerCall ==
    /\ \A c \in DOMAIN searches :
          /\ searches[c].semaphore = Cardinality(InFlight(c))
          /\ Cardinality(InFlight(c)) <= config.MaxConcurrentRequests
          /\ \A u \in DOMAIN searches[c].upc :
                searches[c].upc[u] = "sem" =>
                    (ENABLED Enter(c, u)
                       <=> Cardinality(InFlight(c)) < config.MaxConcurrentRequests)
    /\ Cardinality(TotalInFlight)
          <= Cardinality(DOMAIN searches) * config.MaxConcurrentRequests

\* two concurrent searches, each with MaxConcurrentRequests calls in flight,
\* more than one semaphore admits together, a unit of each still waiting, and
\* one source called by both searches at once
C33_Witness ==
    /\ Cardinality(TotalInFlight) = 2 * config.MaxConcurrentRequests
    /\ \A c \in DOMAIN searches :
          /\ Cardinality(InFlight(c)) = config.MaxConcurrentRequests
          /\ \E u \in DOMAIN searches[c].upc : searches[c].upc[u] = "sem"
    /\ \E u \in InFlight(1) : u \in InFlight(2)

\* ------------------------------------------------------------------- C34
\* C34: a search for an artist's events and a search for a city's events
\* never share a cache entry: when one of them follows the other on the same
\* aggregator, with non-empty names and whatever the limit, it is not
\* answered from the cache, even when the names hold the separator "_".
C34_NoSharedEntry ==
    [][(/\ phase = "done"
        /\ calls' = calls + 1
        /\ {kind, kind'} = {"events", "location"}
        /\ query # <<>>
        /\ query' # <<>>)
          => ~hit']_vars

\* ------------------------------------------------------------------- C35
\* C35: the country is no part of the cache key of the search by location.
\* When a SearchEventsByLocation that ran its sources for one country is
\* followed, within the TTL, by one for the same city and limit and another
\* country, the second is answered from the cache with the result computed
\* for the first country and launches no unit.
C35_CountryNotInKey ==
    [][(/\ phase = "done"
        /\ ~hit
        /\ config.CacheEnabled
        /\ kind = "location"
        /\ calls' = calls + 1
        /\ kind' = "location"
        /\ query' = query
        /\ limit' = limit
        /\ country' # country
        /\ clock <= sortNow + CacheTTL)
          => (/\ hit'
              /\ phase' = "done"
              /\ results' = results
              /\ retErr' = Nil
              /\ upc' = <<>>
              /\ wg' = 0)]_vars

\* a search by location answered from the cache with events that the sources
\* found for another country than the one it asked for
C35_Witness ==
    /\ phase = "done"
    /\ hit
    /\ kind = "location"
    /\ country \in Countries
    /\ upc = <<>>
    /\ results.Events # <<>>
    /\ \A i \in 1..Len(results.Events) :
          /\ results.Events[i].VenueName \in Countries
          /\ results.Events[i].VenueName # country

\* ------------------------------------------------------------------- C36
\* the entries of the search's cache that hold the results it returned
StoredResults ==
    {key \in DOMAIN CacheOf(kind) : CacheOf(kind)[key].Results = results}

\* C36: a search that ran its sources stores what it returns, its errors list
\* included, whatever that list holds; and when a search whose errors list is
\* not empty is followed within the TTL by the same search, the second is
\* answered from the cache with the same items and the same errors and calls
\* no source, whatever the sources would answer now.
C36_ErrorsCached ==
    /\ []((phase = "done" /\ ~hit /\ config.CacheEnabled) =>
             /\ results.Errors = errors
             /\ StoredResults # {}
             /\ \A key \in StoredResults :
                   CacheOf(kind)[key].ExpiresAt = sortNow + CacheTTL)
    /\ [][(/\ phase = "done"
           /\ ~hit
           /\ config.CacheEnabled
           /\ results.Errors # <<>>
           /\ calls' = calls + 1
           /\ kind' = kind
           /\ query' = query
           /\ country' = country
           /\ argLimit' = argLimit
           /\ clock <= sortNow + CacheTTL)
             => (/\ hit'
                 /\ phase' = "done"
                 /\ results' = results
                 /\ ItemsOf(kind, results') = ItemsOf(kind, results)
                 /\ results'.Errors = results.Errors
                 /\ retErr' = Nil
                 /\ upc' = <<>>
                 /\ ures' = <<>>
                 /\ wg' = 0)]_vars

\* a search answered from the cache, at the last instant of the TTL, with the
\* empty list and the errors of a search all of whose sources failed, one of
\* them on the context's deadline
C36_Witness ==
    /\ phase = "done"
    /\ hit
    /\ config.CacheEnabled
    /\ clock = CacheOf(kind)[CacheKey(kind, query, country, limit)].ExpiresAt
    /\ ItemsOf(kind, results) = <<>>
    /\ Len(results.Errors) = 2
    /\ \E i \in 1..Len(results.Errors) : results.Errors[i][3] = "context canceled"
    /\ \E i \in 1..Len(results.Errors) : results.Errors[i][3] = "unavailable"
    /\ results.SourceStats = <<>>

\* ------------------------------------------------------------------- C37
\* the calls allowed in the span of the given length that ends at call i
AllowedWithin(i, span) ==
    {j \in Allowed : /\ log[j].now <= log[i].now
                     /\ log[i].now - log[j].now < span}

StillValid ==
    {i \in 1..Len(request.cached.events) :
        request.cached.events[i].CachedUntil > ServiceNow}

\* C38: in SearchArtistEvents and GetArtistEvents, when none of the cached
\* events is still valid and the client's call fails, a rate-limit failure is
\* returned as ErrRateLimitExceeded even if there are stale cached events,
\* and any other failure returns the stale cached events with a nil error if
\* there are any and ErrExternalAPIFailure if there are none; when at least
\* one cached event is still valid the client is not called.
C38_StaleFallback ==
    response # NoResponse =>
        /\ (response.called /\ request.client.err # Nil /\ StillValid = {}) =>
              IF request.client.err = ErrRateLimitExceeded
              THEN response.err = ErrRateLimitExceeded /\ response.resp = NoResults
              ELSE IF request.cached.events # <<>>
              THEN /\ response.err = Nil
                   /\ response.resp.Events = request.cached.events
              ELSE response.err = ErrExternalAPIFailure /\ response.resp = NoResults
        /\ StillValid # {} => ~response.called

\* ------------------------------------------------------------------- C39
\* C39: MakeRequest makes no more than MaxRetries + 1 attempts; when it
\* returns and none of its attempts produced a usable response (each ended in
\* a transport error, a 429 or a status of 500 or more) it returns a non-nil
\* error and no response; and once the context is done, a backoff or a wait
\* after a 429 ends the call with the context's error without a further
\* attempt.
C39_RetriesThenError ==
    /\ [](request.handler = "MakeRequest" =>
             /\ request.tries <= request.config.MaxRetries + 1
             /\ (response # NoResponse /\ ~request.usable) =>
                   /\ response.err # Nil
                   /\ response.resp = NilResponse)
    /\ [][(/\ request.handler = "MakeRequest"
           /\ request.pc \in {"backoff", "pause"}
           /\ request.ctxDone)
             => (/\ response'.err = ErrCanceled
                 /\ response'.resp = NilResponse
                 /\ request'.tries = request.tries)]_vars

====
